---- MODULE Spec2Model ----
(***************************************************************************)
(* Model of the treemap generator of synologySpace (src/treemap.py):       *)
(*   - build_directory_tree: the flat record list -> nested directory tree *)
(*   - squarify: the client-side squarified layout of one sibling list     *)
(*   - drillDown / navigateUp / navigateTo / getColor: the navigation      *)
(*   - build_category_data, tree_to_treemap_json: the category nodes       *)
(*   - render: the layout of the current node and of one nested level      *)
(* of the dashboard report (src/report.py):                                *)
(*   - _build_treemap_data: the direct children of the root volume         *)
(*   - squarify: the dashboard's copy of the layout                        *)
(* and of the interactive cleanup (src/cleanup.py):                        *)
(*   - confirm, run_cmd, the five cleanup_* functions and the menu loop    *)
(* Each part has its own specification (SpecBuild, SpecSquarify, SpecNav,  *)
(* SpecNavTo, SpecCategory, SpecRender, SpecReport, SpecCleanup) over the  *)
(* same variables; the variables of the other parts stay idle.             *)
(***************************************************************************)
EXTENDS Integers, Sequences, FiniteSets, TLC

VARIABLES
    \* build_directory_tree
    files,          \* the input list of records
    fidx,           \* index of the next record of the for loop
    tree,           \* the nested dicts, keyed by the chain of dict keys from root
    bpc,            \* "idle" | "loop" | "done" | "error"
    \* squarify
    items,          \* the input list: item i has size items[i]
    target,         \* the arguments x, y, w, h
    remainingItems, \* indices of the items not placed yet
    cur,            \* the remaining rectangle cx, cy, cw, ch
    rects,          \* the result list under construction
    spc,            \* "idle" | "call" | "loop" | "done"
    \* navigation
    currentData,
    navStack,
    nodeCat,        \* the _category field of every node
    rootGen,        \* how many synthetic 'All Categories' objects were created
    lastEv,         \* the last event handled, with the state before it
    prevEv,         \* the event before that
    viewRoot,       \* the node init or the category select made the current one
    navpc,          \* "idle" | "loop": inside the while loop of navigateTo
    navArg,         \* the index navigateTo was called with
    \* build_category_data
    reports,        \* the four module reports handed to build_category_data
    categories,     \* the result list under construction
    cpc,            \* "idle" | "files" | "recycle" | "logs" | "dupes" | "done"
    \* _build_treemap_data
    large_dirs,     \* the argument
    ridx,           \* index of the next entry of the for loop
    children,       \* the children list under construction
    treemapData,    \* the returned dict
    rpc,            \* "idle" | "call" | "loop" | "done"
    \* cleanup.py
    DRY_RUN,        \* the module flag, fixed at start
    data,           \* the module reports on disk
    pos,            \* where the program is: the next prompt or statement
    todo,           \* cleanup functions still to call for the current choice
    choice,         \* the last menu choice
    indices,        \* cleanup_large_files: the indices still to handle
    freed,          \* the local freed of the running cleanup function
    total_freed,    \* main's total
    effects,        \* removals, truncations and subprocesses of the running call
    granted,        \* the confirm() calls of the running call that returned True
    \* render
    container,      \* clientWidth and clientHeight of the treemap container
    shown,          \* the dict render is called on (currentData of the page)
    sorted,         \* render's sorted: the children of shown, sorted
    topRects,       \* render's rects: the layout of sorted
    ri,             \* index of the next rectangle of the loop over rects
    drawn,          \* the rectangles added to the page, in order
    calls,          \* the lists passed to squarify so far
    rnd             \* "idle" | "load" | "layout" | "rects" | "inner" | "done"

buildVars == <<files, fidx, tree, bpc>>
sqVars    == <<items, target, remainingItems, cur, rects, spc>>
navVars   == <<currentData, navStack, nodeCat, rootGen, lastEv, prevEv,
               viewRoot, navpc, navArg>>
catVars   == <<reports, categories, cpc>>
reportVars == <<large_dirs, ridx, children, treemapData, rpc>>
cleanVars == <<DRY_RUN, data, pos, todo, choice, indices, freed, total_freed,
               effects, granted>>
renderVars == <<container, shown, sorted, topRects, ri, drawn, calls, rnd>>
vars      == <<files, fidx, tree, bpc,
               items, target, remainingItems, cur, rects, spc,
               currentData, navStack, nodeCat, rootGen, lastEv, prevEv,
               viewRoot, navpc, navArg,
               reports, categories, cpc,
               large_dirs, ridx, children, treemapData, rpc,
               DRY_RUN, data, pos, todo, choice, indices, freed, total_freed,
               effects, granted,
               container, shown, sorted, topRects, ri, drawn, calls, rnd>>

-----------------------------------------------------------------------------
(* JavaScript numbers in exact arithmetic: a fraction n/d in lowest terms   *)
(* with d > 0, and the IEEE specials +Infinity = 1/0, -Infinity = -1/0 and  *)
(* NaN = 0/0.                                                               *)

RECURSIVE GCD(_, _)
GCD(a, b) == IF b = 0 THEN a ELSE GCD(b, a % b)

Abs(n) == IF n < 0 THEN -n ELSE n
Sign(n) == IF n < 0 THEN -1 ELSE IF n > 0 THEN 1 ELSE 0

Q(n, d) ==
    IF d = 0 THEN [n |-> Sign(n), d |-> 0]
    ELSE IF n = 0 THEN [n |-> 0, d |-> 1]
    ELSE LET g == GCD(Abs(n), Abs(d))
         IN  [n |-> Sign(d) * (n \div g), d |-> Abs(d) \div g]

Num(k)   == [n |-> k, d |-> 1]
Zero     == Num(0)
Infinity == [n |-> 1, d |-> 0]
NaN      == [n |-> 0, d |-> 0]

IsNaN(a)    == a.d = 0 /\ a.n = 0
IsInf(a)    == a.d = 0 /\ a.n # 0

QNeg(a) == [n |-> -a.n, d |-> a.d]

QAdd(a, b) ==
    IF IsNaN(a) \/ IsNaN(b) THEN NaN
    ELSE IF IsInf(a) /\ IsInf(b) THEN (IF a.n = b.n THEN a ELSE NaN)
    ELSE IF IsInf(a) THEN a
    ELSE IF IsInf(b) THEN b
    ELSE Q(a.n * b.d + b.n * a.d, a.d * b.d)

QSub(a, b) == QAdd(a, QNeg(b))

\* 0 * Infinity = NaN falls out of Q(0, 0)
QMul(a, b) == Q(a.n * b.n, a.d * b.d)

\* x / 0 = +-Infinity, 0 / 0 = NaN, x / Infinity = 0, Infinity / Infinity = NaN
QDiv(a, b) ==
    IF IsNaN(a) \/ IsNaN(b) THEN NaN
    ELSE IF b.n < 0 THEN Q(-(a.n * b.d), a.d * (-b.n))
    ELSE Q(a.n * b.d, a.d * b.n)

\* every comparison with NaN is false
QLe(a, b) == ~IsNaN(a) /\ ~IsNaN(b) /\
             (IF a.d = 0 /\ b.d = 0 THEN a.n <= b.n ELSE a.n * b.d <= b.n * a.d)
QLt(a, b) == ~IsNaN(a) /\ ~IsNaN(b) /\
             (IF a.d = 0 /\ b.d = 0 THEN a.n < b.n ELSE a.n * b.d < b.n * a.d)
QGe(a, b) == QLe(b, a)
QGt(a, b) == QLt(b, a)

\* Math.max / Math.min: NaN if either argument is NaN
QMax(a, b) == IF IsNaN(a) \/ IsNaN(b) THEN NaN ELSE IF QGe(a, b) THEN a ELSE b
QMin(a, b) == IF IsNaN(a) \/ IsNaN(b) THEN NaN ELSE IF QLe(a, b) THEN a ELSE b

-----------------------------------------------------------------------------
(* squarify(items, x, y, w, h)                                              *)

MaxLen  == 3    \* longest sibling list
MaxSize == 3    \* largest item size of the enumerated lists
MaxDim  == 3    \* largest width / height of the enumerated target rectangles

\* (item.size || 0)
ItemSize(i) == items[i]

\* items.reduce((s, i) => s + (i.size || 0), 0) over a list of item indices
RECURSIVE SumSizes(_)
SumSizes(s) == IF s = <<>> THEN 0 ELSE ItemSize(Head(s)) + SumSizes(Tail(s))

\* the for loop of worstRatio: worst = Math.max(worst, r) over the row
RECURSIVE WorstOver(_, _, _, _, _, _)
WorstOver(row, worst, rowLen, sideLen, long, remaining) ==
    IF row = <<>> THEN worst
    ELSE LET itemArea == QMul(QMul(QDiv(Num(ItemSize(Head(row))), Num(remaining)),
                                   sideLen), long)
             itemLen  == QDiv(itemArea, rowLen)
             r        == QMax(QDiv(rowLen, itemLen), QDiv(itemLen, rowLen))
         IN  WorstOver(Tail(row), QMax(worst, r), rowLen, sideLen, long, remaining)

\* worstRatio(row, rowSize, sideLen); long is (isWide ? cw : ch)
worstRatio(row, rowSize, sideLen, long, remaining) ==
    LET rowLen == QMul(QDiv(Num(rowSize), Num(remaining)), long)
    IN  IF QLe(rowLen, Zero) THEN Infinity
        ELSE WorstOver(row, Zero, rowLen, sideLen, long, remaining)

\* the inner while loop never closing a row
AcceptNextAlways(row, rowSize, next, sideLen, long, remaining) == TRUE

\* the acceptance test of the inner while loop
AcceptNext(row, rowSize, next, sideLen, long, remaining) ==
    QLe(worstRatio(Append(row, next), rowSize + ItemSize(next), sideLen, long, remaining),
        worstRatio(row, rowSize, sideLen, long, remaining))

\* the inner while loop: returns the row and the items left after it
RECURSIVE GrowRow(_, _, _, _, _, _)
GrowRow(row, rowSize, rest, sideLen, long, remaining) ==
    IF rest = <<>> THEN [row |-> row, rest |-> rest]
    ELSE IF AcceptNext(row, rowSize, Head(rest), sideLen, long, remaining)
         THEN GrowRow(Append(row, Head(rest)), rowSize + ItemSize(Head(rest)),
                      Tail(rest), sideLen, long, remaining)
         ELSE [row |-> row, rest |-> rest]

\* the placing loop, leaving out the rectangles thinner than 2
RECURSIVE PlaceRowDropThin(_, _, _, _, _, _, _)
PlaceRowDropThin(row, offset, rowSize, rowThickness, sideLen, isWide, c) ==
    IF row = <<>> THEN <<>>
    ELSE LET itemLen == QMul(sideLen, QDiv(Num(ItemSize(Head(row))), Num(rowSize)))
             r == IF isWide
                  THEN [item |-> Head(row), x |-> c.x, y |-> QAdd(c.y, offset),
                        w |-> rowThickness, h |-> itemLen]
                  ELSE [item |-> Head(row), x |-> QAdd(c.x, offset), y |-> c.y,
                        w |-> itemLen, h |-> rowThickness]
             keep == IF QLt(r.w, Num(2)) \/ QLt(r.h, Num(2)) THEN <<>> ELSE <<r>>
         IN  keep \o PlaceRowDropThin(Tail(row), QAdd(offset, itemLen), rowSize,
                                      rowThickness, sideLen, isWide, c)

\* the for loop that places the items of a closed row
RECURSIVE PlaceRow(_, _, _, _, _, _, _)
PlaceRow(row, offset, rowSize, rowThickness, sideLen, isWide, c) ==
    IF row = <<>> THEN <<>>
    ELSE LET itemFraction == QDiv(Num(ItemSize(Head(row))), Num(rowSize))
             itemLen      == QMul(sideLen, itemFraction)
             r == IF isWide
                  THEN [item |-> Head(row), x |-> c.x, y |-> QAdd(c.y, offset),
                        w |-> rowThickness, h |-> itemLen]
                  ELSE [item |-> Head(row), x |-> QAdd(c.x, offset), y |-> c.y,
                        w |-> itemLen, h |-> rowThickness]
         IN  <<r>> \o PlaceRow(Tail(row), QAdd(offset, itemLen), rowSize,
                               rowThickness, sideLen, isWide, c)

\* one iteration of the outer while loop, from the remaining items rem and the
\* remaining rectangle c: the rectangles of the row, the items and rectangle left
LayoutRow(rem, c) ==
    LET isWide    == QGe(c.w, c.h)
        sideLen   == IF isWide THEN c.h ELSE c.w
        long      == IF isWide THEN c.w ELSE c.h
        remaining == SumSizes(rem)
        grown     == GrowRow(<<Head(rem)>>, ItemSize(Head(rem)), Tail(rem),
                             sideLen, long, remaining)
        rowSize      == SumSizes(grown.row)
        rowFraction  == QDiv(Num(rowSize), Num(remaining))
        rowThickness == QMul(long, rowFraction)
    IN  [placed |-> PlaceRow(grown.row, Zero, rowSize, rowThickness, sideLen, isWide, c),
         row    |-> grown.row,
         rest   |-> grown.rest,
         c      |-> IF isWide
                    THEN [c EXCEPT !.x = QAdd(c.x, rowThickness),
                                   !.w = QSub(c.w, rowThickness)]
                    ELSE [c EXCEPT !.y = QAdd(c.y, rowThickness),
                                   !.h = QSub(c.h, rowThickness)]]

\* the early returns without the test of the total
ReturnsEmptyLengthOnly(its) == Len(its) = 0

\* the two early returns of squarify
ReturnsEmpty(its) ==
    \/ Len(its) = 0
    \/ SumSizes([i \in 1..Len(its) |-> i]) <= 0

IdleRect == [x |-> Zero, y |-> Zero, w |-> Zero, h |-> Zero]

\* the sibling lists and target rectangles the layout is exercised on: all short
\* lists of small sizes in small rectangles, and the two examples of the design
ItemLists ==
    UNION {[1..n -> 0..MaxSize] : n \in 0..MaxLen}
        \cup {<<10, 0>>, <<300, 100, 100>>}

Targets ==
    {[x |-> Zero, y |-> Zero, w |-> Num(wd), h |-> Num(ht)] :
        wd \in 1..MaxDim, ht \in 1..MaxDim}
        \cup {[x |-> Num(1), y |-> Num(2), w |-> Num(3), h |-> Num(2)],
              [x |-> Num(1), y |-> Num(2), w |-> Num(2), h |-> Num(3)],
              [x |-> Zero, y |-> Zero, w |-> Num(100), h |-> Num(100)],
              [x |-> Zero, y |-> Zero, w |-> Num(400), h |-> Num(100)]}

\* lines 323-329: the early returns, then remainingItems = [...items]
SqEnter ==
    /\ spc = "call"
    /\ IF ReturnsEmpty(items)
       THEN /\ spc' = "done"
            /\ UNCHANGED <<remainingItems, cur>>
       ELSE /\ spc' = "loop"
            /\ remainingItems' = [i \in 1..Len(items) |-> i]
            /\ cur' = target
    /\ UNCHANGED <<items, target, rects>>

\* lines 331-398: one pass of while (remainingItems.length > 0)
SqRow ==
    /\ spc = "loop"
    /\ remainingItems # <<>>
    /\ LET step == LayoutRow(remainingItems, cur)
       IN  /\ rects' = rects \o step.placed
           /\ remainingItems' = step.rest
           /\ cur' = step.c
    /\ UNCHANGED <<items, target, spc>>

\* line 399: return rects
SqReturn ==
    /\ spc = "loop"
    /\ remainingItems = <<>>
    /\ spc' = "done"
    /\ UNCHANGED <<items, target, remainingItems, cur, rects>>

-----------------------------------------------------------------------------
(* squarify of the dashboard (src/report.py, lines 540-575): the same layout *)
(* written a second time. Its items are the same objects (item indices) and *)
(* it reads it.size without the || 0, which is the same number for a numeric *)
(* size.                                                                    *)

\* the for loop of worst(row, rs, sl): w = Math.max(w, Math.max(rl/il, il/rl))
RECURSIVE ReportWorstOver(_, _, _, _, _, _)
ReportWorstOver(row, w, rl, sl, long, remaining) ==
    IF row = <<>> THEN w
    ELSE LET ia == QMul(QMul(QDiv(Num(ItemSize(Head(row))), Num(remaining)), sl), long)
             il == QDiv(ia, rl)
         IN  ReportWorstOver(Tail(row), QMax(w, QMax(QDiv(rl, il), QDiv(il, rl))),
                             rl, sl, long, remaining)

\* worst(row, rs, sl); long is (isWide?cw:ch)
ReportWorst(row, rs, sl, long, remaining) ==
    LET rl == QMul(QDiv(Num(rs), Num(remaining)), long)
    IN  IF QLe(rl, Zero) THEN Infinity
        ELSE ReportWorstOver(row, Zero, rl, sl, long, remaining)

\* the test of the inner loop with < in place of <=
ReportAcceptStrict(row, rowSize, next, sideLen, long, remaining) ==
    QLt(ReportWorst(Append(row, next), rowSize + ItemSize(next), sideLen, long, remaining),
        ReportWorst(row, rowSize, sideLen, long, remaining))

\* the test of the inner loop: worst(nr,ns,sideLen)<=worst(row,rowSize,sideLen)
ReportAccept(row, rowSize, next, sideLen, long, remaining) ==
    QLe(ReportWorst(Append(row, next), rowSize + ItemSize(next), sideLen, long, remaining),
        ReportWorst(row, rowSize, sideLen, long, remaining))

\* the inner while loop over rem
RECURSIVE ReportGrowRow(_, _, _, _, _, _)
ReportGrowRow(row, rowSize, rem, sideLen, long, remaining) ==
    IF rem = <<>> THEN [row |-> row, rowSize |-> rowSize, rem |-> rem]
    ELSE IF ReportAccept(row, rowSize, Head(rem), sideLen, long, remaining)
         THEN ReportGrowRow(Append(row, Head(rem)), rowSize + ItemSize(Head(rem)),
                            Tail(rem), sideLen, long, remaining)
         ELSE [row |-> row, rowSize |-> rowSize, rem |-> rem]

\* the for loop pushing the rectangles of a row
RECURSIVE ReportPlaceRow(_, _, _, _, _, _, _)
ReportPlaceRow(row, off, rowSize, rt, sideLen, isWide, c) ==
    IF row = <<>> THEN <<>>
    ELSE LET il == QMul(sideLen, QDiv(Num(ItemSize(Head(row))), Num(rowSize)))
             r  == IF isWide
                   THEN [item |-> Head(row), x |-> c.x, y |-> QAdd(c.y, off),
                         w |-> rt, h |-> il]
                   ELSE [item |-> Head(row), x |-> QAdd(c.x, off), y |-> c.y,
                         w |-> il, h |-> rt]
         IN  <<r>> \o ReportPlaceRow(Tail(row), QAdd(off, il), rowSize, rt, sideLen,
                                     isWide, c)

\* while (rem.length > 0): all the passes, from rem and the rectangle c
RECURSIVE ReportRows(_, _)
ReportRows(rem, c) ==
    IF rem = <<>> THEN <<>>
    ELSE LET isWide    == QGe(c.w, c.h)
             sideLen   == IF isWide THEN c.h ELSE c.w
             long      == IF isWide THEN c.w ELSE c.h
             remaining == SumSizes(rem)
             grown     == ReportGrowRow(<<Head(rem)>>, ItemSize(Head(rem)), Tail(rem),
                                        sideLen, long, remaining)
             rt        == QMul(QDiv(Num(grown.rowSize), Num(remaining)), long)
         IN  ReportPlaceRow(grown.row, Zero, grown.rowSize, rt, sideLen, isWide, c)
                \o ReportRows(grown.rem,
                              IF isWide
                              THEN [c EXCEPT !.x = QAdd(c.x, rt), !.w = QSub(c.w, rt)]
                              ELSE [c EXCEPT !.y = QAdd(c.y, rt), !.h = QSub(c.h, rt)])

\* squarify(items, x, y, w, h) of the dashboard, c the rectangle (x, y, w, h)
ReportSquarify(its, c) ==
    IF Len(its) = 0 THEN <<>>
    ELSE IF SumSizes([i \in 1..Len(its) |-> i]) <= 0 THEN <<>>
    ELSE ReportRows([i \in 1..Len(its) |-> i], c)

-----------------------------------------------------------------------------
(* build_directory_tree(files)                                              *)

MaxFiles   == 3    \* longest record list
RecSizes == {1, 2} \* the sizes of the accepted records

\* A path is the sequence of its characters; keys is the set of the keys the
\* record dict has (a field outside keys is absent from the dict).

\* path.strip("/")
RECURSIVE StripLeft(_)
StripLeft(s) == IF s # <<>> /\ Head(s) = "/" THEN StripLeft(Tail(s)) ELSE s
RECURSIVE StripRight(_)
StripRight(s) ==
    IF s # <<>> /\ s[Len(s)] = "/" THEN StripRight(SubSeq(s, 1, Len(s) - 1)) ELSE s
Strip(s) == StripRight(StripLeft(s))

\* str.split("/"): one component per separator, empty components kept
RECURSIVE Split(_)
Split(s) ==
    IF \A i \in 1..Len(s) : s[i] # "/" THEN <<s>>
    ELSE LET i == CHOOSE j \in 1..Len(s) : s[j] = "/" /\ \A k \in 1..(j - 1) : s[k] # "/"
         IN  <<SubSeq(s, 1, i - 1)>> \o Split(SubSeq(s, i + 1, Len(s)))

\* f.get("path", "") and f.get("size", 0)
GetPath(f) == IF "path" \in f.keys THEN f.path ELSE <<>>
GetSize(f) == IF "size" \in f.keys THEN f.size ELSE 0

\* the test with size < 0 for size <= 0
SkippedNegativeOnly(f) == GetPath(f) = <<>> \/ GetSize(f) < 0

\* line 59: if not path or size <= 0: continue
Skipped(f) == GetPath(f) = <<>> \/ GetSize(f) <= 0

\* The nested dicts as one map from the chain of dict keys (from the root) to
\* the dict stored there. isDir: the dict has a "children" key; a leaf has a
\* "path" key instead. ord: the position of the key in its parent's dict (a
\* dict keeps its keys in the order of their first insertion).
DirNode(name, ord) ==
    [name |-> name, size |-> 0, isDir |-> TRUE, path |-> <<>>, ord |-> ord]
LeafNode(name, sz, p, ord) ==
    [name |-> name, size |-> sz, isDir |-> FALSE, path |-> p, ord |-> ord]

RootKey == <<>>
EmptyTree == (RootKey :> DirNode(<<"/">>, 1))

IsPrefix(k, l) == Len(k) <= Len(l) /\ SubSeq(l, 1, Len(k)) = k
\* the keys of node["children"] for the dict at k
ChildKeys(t, k) == {l \in DOMAIN t : Len(l) = Len(k) + 1 /\ IsPrefix(k, l)}
\* where a new key of the dict at k is appended
NextOrd(t, k) == Cardinality(ChildKeys(t, k)) + 1

RECURSIVE SumOver(_, _)
SumOver(t, ks) ==
    IF ks = {} THEN 0
    ELSE LET k == CHOOSE x \in ks : TRUE IN t[k].size + SumOver(t, ks \ {k})

\* the walk adding the size to the first directory of the path only
RECURSIVE WalkDirsCountsTopOnly(_, _, _, _)
WalkDirsCountsTopOnly(t, parts, i, size) ==
    LET key == SubSeq(parts, 1, i)
        ck  == SubSeq(parts, 1, i + 1)
    IN  IF ~t[key].isDir THEN [tree |-> t, ok |-> FALSE]
        ELSE IF i = Len(parts) - 1 THEN [tree |-> t, ok |-> TRUE]
        ELSE LET t1 == IF ck \in DOMAIN t THEN t ELSE t @@ (ck :> DirNode(parts[i + 1], NextOrd(t, key)))
                 t2 == [t1 EXCEPT ![ck].size = IF i = 0 THEN @ + size ELSE @]
             IN  WalkDirsCountsTopOnly(t2, parts, i + 1, size)

\* lines 66-70: the loop over parts[:-1], from the dict at parts[1..i]. Reading
\* node["children"] of a leaf dict raises KeyError (ok = FALSE); the sizes
\* added before that stay added.
RECURSIVE WalkDirs(_, _, _, _)
WalkDirs(t, parts, i, size) ==
    LET key == SubSeq(parts, 1, i)
        ck  == SubSeq(parts, 1, i + 1)
    IN  IF ~t[key].isDir THEN [tree |-> t, ok |-> FALSE]
        ELSE IF i = Len(parts) - 1 THEN [tree |-> t, ok |-> TRUE]
        ELSE LET t1 == IF ck \in DOMAIN t THEN t ELSE t @@ (ck :> DirNode(parts[i + 1], NextOrd(t, key)))
                 t2 == [t1 EXCEPT ![ck].size = @ + size]
             IN  WalkDirs(t2, parts, i + 1, size)

\* lines 73-79: node["children"][filename] = {...}: whatever was stored under
\* that key (a leaf, or a directory and everything below it) is replaced
PutLeaf(t, parts, size, path) ==
    LET below == {l \in DOMAIN t : IsPrefix(parts, l) /\ l # parts}
        kept  == [l \in (DOMAIN t \ below) \ {parts} |-> t[l]]
        ord   == IF parts \in DOMAIN t THEN t[parts].ord
                 ELSE NextOrd(t, SubSeq(parts, 1, Len(parts) - 1))
    IN  kept @@ (parts :> LeafNode(parts[Len(parts)], size, path, ord))

\* the body of the for loop for one record
InsertRecord(t, f) ==
    IF Skipped(f) THEN [tree |-> t, ok |-> TRUE]
    ELSE LET parts  == Split(Strip(GetPath(f)))
             walked == WalkDirs(t, parts, 0, GetSize(f))
         IN  IF walked.ok
             THEN [tree |-> PutLeaf(walked.tree, parts, GetSize(f), GetPath(f)), ok |-> TRUE]
             ELSE walked

\* lines 81-83: root["size"] = sum(c.get("size", 0) for c in root["children"].values())
SetRootSize(t) == [t EXCEPT ![RootKey].size = SumOver(t, ChildKeys(t, RootKey))]

\* the whole function on a record list: the tree it returns, or ok = FALSE
\* when a record raises
RECURSIVE BuildFrom(_, _)
BuildFrom(t, fs) ==
    IF fs = <<>> THEN [tree |-> SetRootSize(t), ok |-> TRUE]
    ELSE LET res == InsertRecord(t, Head(fs))
         IN  IF res.ok THEN BuildFrom(res.tree, Tail(fs)) ELSE res
build_directory_tree(fs) == BuildFrom(EmptyTree, fs)

\* lines 100-104: sorted(children.values(), key=size, reverse=True), as the
\* keys of the dict at k: largest size first, equal sizes in dict order
RECURSIVE SortedFrom(_, _)
SortedFrom(t, ks) ==
    IF ks = {} THEN <<>>
    ELSE LET k == CHOOSE x \in ks :
                     \A y \in ks : \/ t[x].size > t[y].size
                                   \/ t[x].size = t[y].size /\ t[x].ord <= t[y].ord
         IN  <<k>> \o SortedFrom(t, ks \ {k})
SortedChildren(t, k) == SortedFrom(t, ChildKeys(t, k))

Paths ==
    { <<"/", "a", "/", "f">>,          \* /a/f
      <<"a", "/", "f", "/">>,          \* a/f/   (the same components as /a/f)
      <<"/", "a", "/", "g">>,          \* /a/g
      <<"/", "a">>,                    \* /a     (a directory of the paths above)
      <<"/", "a", "/", "f", "/", "h">>,\* /a/f/h (below the file /a/f)
      <<"/", "b", "/", "c", "/", "f">> \* /b/c/f
    }

Records ==
    [path : Paths, size : RecSizes, keys : {{"path", "size"}}]
        \cup { [path |-> <<>>, size |-> 1, keys |-> {"size"}],
               [path |-> <<>>, size |-> 1, keys |-> {"path", "size"}],
               [path |-> <<"/", "a", "/", "f">>, size |-> 0, keys |-> {"path"}],
               [path |-> <<"/", "a", "/", "f">>, size |-> 0, keys |-> {"path", "size"}],
               [path |-> <<"/", "a", "/", "g">>, size |-> -1, keys |-> {"path", "size"}] }

\* one pass of for f in files
BuildStep ==
    /\ bpc = "loop"
    /\ fidx <= Len(files)
    /\ LET res == InsertRecord(tree, files[fidx])
       IN  /\ tree' = res.tree
           /\ bpc' = IF res.ok THEN "loop" ELSE "error"
    /\ fidx' = fidx + 1
    /\ UNCHANGED files

\* after the loop: the root's size, return root
BuildReturn ==
    /\ bpc = "loop"
    /\ fidx > Len(files)
    /\ tree' = SetRootSize(tree)
    /\ bpc' = "done"
    /\ UNCHANGED <<files, fidx>>

-----------------------------------------------------------------------------
(* The page: ALL_DATA, currentData, navStack and the event handlers         *)

MaxRoots == 3    \* how many 'All Categories' objects one session creates

\* ALL_DATA as emitted by build_category_data / tree_to_treemap_json: node ids
\* stand for object references. Absent: the object has no children field.
Absent == <<0>>
ALL_DATA == <<1, 2>>
Nodes == 1..9

Children(n) ==
    CASE n = 1 -> <<3, 4>>      \* Files by Directory
      [] n = 2 -> <<8, 9>>      \* Recycle Bins
      [] n = 3 -> <<5, 6>>      \* a directory
      [] n = 5 -> <<7>>         \* a directory below it
      [] n = 9 -> <<>>          \* children: []
      [] n < 0 -> ALL_DATA      \* a synthetic 'All Categories' root
      [] OTHER -> Absent        \* files and bins

NodeSize(n) ==
    CASE n = 1 -> 6 [] n = 2 -> 3 [] n = 3 -> 4 [] n = 4 -> 2 [] n = 5 -> 3
      [] n = 6 -> 1 [] n = 7 -> 3 [] n = 8 -> 3 [] n = 9 -> 0 [] OTHER -> 9

\* the category field, present on the members of ALL_DATA only
None == "none"
Category(n) == CASE n = 1 -> "files" [] n = 2 -> "recycle" [] OTHER -> None

\* the object created by init (gen 1) or by the g-th 'all' selection
SyntheticRoot(g) == 0 - g

\* item.children && item.children.length > 0
HasKids(n) == Children(n) # Absent /\ Len(Children(n)) > 0
\* (node.children || [])
KidSet(n) == IF Children(n) = Absent THEN {} ELSE {Children(n)[i] : i \in 1..Len(Children(n))}

RECURSIVE Subtree(_)
Subtree(n) == {n} \cup UNION {Subtree(c) : c \in KidSet(n)}

\* the tag computed without looking at s._category: s.category || 'files'
CategoryOfIgnoresTag(s, cat) ==
    IF Category(s) # None THEN Category(s) ELSE "files"

\* s.category || s._category || 'files'
CategoryOf(s, cat) ==
    IF Category(s) # None THEN Category(s)
    ELSE IF cat[s] # None THEN cat[s]
    ELSE "files"

\* attachCategory without the recursion into node.children
attachCategoryShallow(cd, cat) ==
    [n \in Nodes |-> IF n \in KidSet(cd) THEN CategoryOf(n, cat) ELSE cat[n]]

\* attachCategory over the children of the current node (line 421)
attachCategory(cd, cat) ==
    [n \in Nodes |->
        IF \E s \in KidSet(cd) : n \in Subtree(s)
        THEN CategoryOf(CHOOSE s \in KidSet(cd) : n \in Subtree(s), cat)
        ELSE cat[n]]

\* render(): what it changes in the page state (the DOM aside) is the
\* _category of the nodes below the current one
render(s) ==
    IF KidSet(s.cd) = {} THEN s
    ELSE [s EXCEPT !.cat = attachCategory(s.cd, s.cat)]

\* drillDown without the test of item.children
drillDownUnguarded(s, item) ==
    render([s EXCEPT !.stack = Append(s.stack, s.cd), !.cd = item])

\* drillDown pushing the clicked item instead of the current node
drillDownPushesItem(s, item) ==
    IF ~HasKids(item) THEN s
    ELSE render([s EXCEPT !.stack = Append(s.stack, item), !.cd = item])

drillDown(s, item) ==
    IF ~HasKids(item) THEN s
    ELSE render([s EXCEPT !.stack = Append(s.stack, s.cd), !.cd = item])

\* navigateUp reading the top of the stack without removing it
navigateUpKeepsStack(s) ==
    IF Len(s.stack) = 0 THEN s
    ELSE render([s EXCEPT !.cd = s.stack[Len(s.stack)]])

navigateUp(s) ==
    IF Len(s.stack) = 0 THEN s
    ELSE render([s EXCEPT !.cd = s.stack[Len(s.stack)],
                          !.stack = SubSeq(s.stack, 1, Len(s.stack) - 1)])

\* while (navStack.length > index) currentData = navStack.pop()
RECURSIVE PopTo(_, _)
PopTo(s, index) ==
    IF Len(s.stack) > index
    THEN PopTo([s EXCEPT !.cd = s.stack[Len(s.stack)],
                         !.stack = SubSeq(s.stack, 1, Len(s.stack) - 1)], index)
    ELSE s

\* navigateTo stopping one entry early
navigateToOffByOne(s, index) == render(PopTo(s, index + 1))

navigateTo(s, index) == render(PopTo(s, index))

\* node.name split at the dots, for the nodes of the page
NameParts(n) ==
    CASE n = 1 -> <<"Files by Directory">> [] n = 2 -> <<"Recycle Bins">>
      [] n = 3 -> <<"photos">> [] n = 4 -> <<"backup", "tar", "gz">>
      [] n = 5 -> <<"2024">> [] n = 6 -> <<"notes", "txt">>
      [] n = 7 -> <<"IMG_1", "JPG">> [] n = 8 -> <<"video">> [] n = 9 -> <<"homes">>
      [] OTHER -> <<"All Categories">>

\* toLowerCase on the extensions of these names
ToLowerCase(str) == CASE str = "JPG" -> "jpg" [] OTHER -> str

\* getExtension(name), lines 300-303
getExtension(parts) ==
    IF Len(parts) > 1 THEN ToLowerCase(parts[Len(parts)]) ELSE ""

CATEGORY_COLORS ==
    [files      |-> <<"#e94560", "#c0392b", "#e74c3c", "#ff6b6b", "#d63031">>,
     recycle    |-> <<"#f39c12", "#e67e22", "#d35400", "#f0932b", "#e58e26">>,
     logs       |-> <<"#2ecc71", "#27ae60", "#1abc9c", "#0abde3", "#10ac84">>,
     duplicates |-> <<"#9b59b6", "#8e44ad", "#6c5ce7", "#a29bfe", "#fd79a8">>]

EXT_COLORS ==
    "jpg" :> "#e94560" @@ "jpeg" :> "#e94560" @@ "png" :> "#ff6b6b" @@
    "gif" :> "#d63031" @@ "bmp" :> "#c0392b" @@ "svg" :> "#e74c3c" @@
    "webp" :> "#ff7675" @@ "ico" :> "#fab1a0" @@ "mp4" :> "#0984e3" @@
    "mkv" :> "#74b9ff" @@ "avi" :> "#0652DD" @@ "mov" :> "#1e90ff" @@
    "wmv" :> "#4834d4" @@ "mp3" :> "#6c5ce7" @@ "flac" :> "#a29bfe" @@
    "wav" :> "#5f27cd" @@ "aac" :> "#8854d0" @@ "ogg" :> "#9b59b6" @@
    "pdf" :> "#d63031" @@ "doc" :> "#2d98da" @@ "docx" :> "#2d98da" @@
    "xls" :> "#20bf6b" @@ "xlsx" :> "#20bf6b" @@ "ppt" :> "#f7b731" @@
    "pptx" :> "#f7b731" @@ "txt" :> "#95a5a6" @@ "csv" :> "#26de81" @@
    "md" :> "#778ca3" @@ "zip" :> "#f39c12" @@ "tar" :> "#e67e22" @@
    "gz" :> "#d35400" @@ "bz2" :> "#e58e26" @@ "7z" :> "#f0932b" @@
    "rar" :> "#fa8231" @@ "xz" :> "#fd9644" @@ "py" :> "#3498db" @@
    "js" :> "#f1c40f" @@ "ts" :> "#2980b9" @@ "html" :> "#e44d26" @@
    "css" :> "#264de4" @@ "java" :> "#b07219" @@ "go" :> "#00ADD8" @@
    "rs" :> "#dea584" @@ "c" :> "#555555" @@ "cpp" :> "#f34b7d" @@
    "sh" :> "#4EAA25" @@ "json" :> "#292929" @@ "xml" :> "#e37933" @@
    "yaml" :> "#cb171e" @@ "yml" :> "#cb171e" @@ "db" :> "#1abc9c" @@
    "sql" :> "#e67e22" @@ "sqlite" :> "#1abc9c" @@ "log" :> "#2ecc71" @@
    "vmdk" :> "#e94560" @@ "qcow2" :> "#c0392b" @@ "iso" :> "#d63031" @@
    "img" :> "#ff6b6b" @@ "_default" :> "#636e72"

\* a color is <<"hex", text>> or, for hsl(h, 70%, 45%), <<"hsl", h, 70, 45>>
Modes == {"category", "size", "type"}

\* getColor(node, mode, depth); it reads node._category and, in size mode, the
\* global currentData
getColor(node, mode, depth) ==
    IF mode = "category"
    THEN LET cat    == IF nodeCat[node] # None THEN nodeCat[node] ELSE "files"
             colors == IF cat \in DOMAIN CATEGORY_COLORS THEN CATEGORY_COLORS[cat]
                       ELSE CATEGORY_COLORS.files
         IN  <<"hex", colors[(depth % Len(colors)) + 1]>>
    ELSE IF mode = "size"
    THEN LET maxSize == IF currentData # 0
                        THEN (IF NodeSize(currentData) # 0 THEN NodeSize(currentData) ELSE 1)
                        ELSE 1
             ratio   == QMin(Num(1), QDiv(Num(NodeSize(node)), Num(maxSize)))
             h       == QMul(QSub(Num(1), ratio), Num(200))
         IN  <<"hsl", h, 70, 45>>
    ELSE LET ext == getExtension(NameParts(node))
         IN  <<"hex", IF ext \in DOMAIN EXT_COLORS THEN EXT_COLORS[ext]
                      ELSE EXT_COLORS["_default"]>>

\* the rectangles render attaches click handlers to: children of the current
\* node and, where the rectangle is large enough, their children
Shown(cd) == KidSet(cd) \cup UNION {KidSet(c) : c \in KidSet(cd)}

NavState == [cd |-> currentData, stack |-> navStack, cat |-> nodeCat]
Event(op, arg) ==
    [op |-> op, arg |-> arg, cd |-> currentData, stack |-> navStack, cat |-> nodeCat]
NoCategories == [n \in Nodes |-> None]
NoEvent ==
    [op |-> "none", arg |-> 0, cd |-> 0, stack |-> <<>>, cat |-> NoCategories]

Apply(s, op, arg) ==
    /\ navpc = "idle"
    /\ UNCHANGED <<navpc, navArg>>
    /\ currentData' = s.cd
    /\ navStack' = s.stack
    /\ nodeCat' = s.cat
    /\ prevEv' = lastEv
    /\ lastEv' = Event(op, arg)

\* a click on a rectangle
DrillDown(n) ==
    /\ n \in Shown(currentData)
    /\ Apply(drillDown(NavState, n), "drillDown", n)
    /\ UNCHANGED <<rootGen, viewRoot>>

\* the Up button
NavigateUp ==
    /\ Apply(navigateUp(NavState), "navigateUp", 0)
    /\ UNCHANGED <<rootGen, viewRoot>>

\* a breadcrumb entry
NavigateTo(index) ==
    /\ index \in 0..Len(navStack)
    /\ Apply(navigateTo(NavState, index), "navigateTo", index)
    /\ UNCHANGED <<rootGen, viewRoot>>

\* navStack.pop() of an empty array returns undefined; like null (0, the value
\* of currentData before init) it is falsy, and no node
Undefined == 0

\* navigateTo(index) statement by statement, for any index: the call
NavToCall(index) ==
    /\ navpc = "idle"
    /\ navpc' = "loop"
    /\ navArg' = index
    /\ prevEv' = lastEv
    /\ lastEv' = Event("navigateTo", index)
    /\ UNCHANGED <<currentData, navStack, nodeCat, rootGen, viewRoot>>

\* one pass of while (navStack.length > index): currentData = navStack.pop()
NavToPop ==
    /\ navpc = "loop"
    /\ Len(navStack) > navArg
    /\ currentData' = IF navStack = <<>> THEN Undefined ELSE navStack[Len(navStack)]
    /\ navStack' = IF navStack = <<>> THEN <<>> ELSE SubSeq(navStack, 1, Len(navStack) - 1)
    /\ UNCHANGED <<nodeCat, rootGen, lastEv, prevEv, viewRoot, navpc, navArg>>

\* the loop is left: render() and return
NavToReturn ==
    /\ navpc = "loop"
    /\ ~(Len(navStack) > navArg)
    /\ nodeCat' = render(NavState).cat
    /\ navpc' = "idle"
    /\ UNCHANGED <<currentData, navStack, rootGen, lastEv, prevEv, viewRoot, navArg>>

\* the change handler of the category select, 'all' chosen (lines 580-589)
SelectAll ==
    /\ rootGen < MaxRoots
    /\ rootGen' = rootGen + 1
    /\ viewRoot' = SyntheticRoot(rootGen + 1)
    /\ Apply(render([cd |-> SyntheticRoot(rootGen + 1), stack |-> <<>>, cat |-> nodeCat]),
             "select", 0)

\* the change handler of the category select, category i chosen
SelectCategory(i) ==
    /\ i \in 1..Len(ALL_DATA)
    /\ Apply(render([cd |-> ALL_DATA[i], stack |-> <<>>, cat |-> nodeCat]), "select", i)
    /\ viewRoot' = ALL_DATA[i]
    /\ UNCHANGED rootGen

\* window resize, color-mode change: render() alone
Rerender ==
    /\ Apply(render(NavState), "render", 0)
    /\ UNCHANGED <<rootGen, viewRoot>>

-----------------------------------------------------------------------------
(* build_category_data (src/treemap.py, lines 110-188). A report is what    *)
(* load_json returned: present is FALSE for None, for an empty dict and for *)
(* a value that is not a dict; keys is the set of keys a dict has.          *)

NoReport == [present |-> FALSE, keys |-> {}]

\* one entry of recycle_bins.json "bins"
Bin(share, path, size_bytes, file_count) ==
    [keys |-> {"share", "path", "size_bytes", "file_count"}, share |-> share,
     path |-> path, size_bytes |-> size_bytes, file_count |-> file_count]
\* one entry of logs.json "logs"; the path is <<directory, base name, suffix>>
LogEntry(path, size_bytes, safe_to_clean) ==
    [keys |-> {"path", "size_bytes", "safe_to_clean"}, path |-> path,
     size_bytes |-> size_bytes, safe_to_clean |-> safe_to_clean]
\* one entry of duplicates.json "groups"
Group(ncopies, size, wasted) ==
    [keys |-> {"files", "size", "wasted"}, files |-> ncopies, size |-> size,
     wasted |-> wasted]

\* d.get(key, default)
Get(d, key, default) == IF key \in d.keys THEN d[key] ELSE default

RecycleReport(keys, total, bins) ==
    [present |-> TRUE, keys |-> keys, total_size_bytes |-> total, bins |-> bins]
LogsReport(keys, total, logs) ==
    [present |-> TRUE, keys |-> keys, total_size_bytes |-> total, logs |-> logs]
DupesReport(keys, total, groups) ==
    [present |-> TRUE, keys |-> keys, total_wasted_bytes |-> total, groups |-> groups]

\* lines 129-135: one child per bin
RecycleChild(b) ==
    [name |-> <<Get(b, "share", "unknown"), "/#recycle">>,
     size |-> Get(b, "size_bytes", 0)]
\* lines 150-157: one child per log
LogChild(l) ==
    [name |-> IF "path" \in l.keys /\ l.path # <<>> THEN SubSeq(l.path, 2, Len(l.path))
              ELSE <<"?">>,
     size |-> Get(l, "size_bytes", 0)]
\* lines 171-178: one child per group
GroupChild(g) ==
    [name |-> <<Get(g, "files", 0), Get(g, "size", 0)>>,
     size |-> Get(g, "wasted", 0)]

\* lines 136-142
RecycleNode(recycle) ==
    [name |-> "Recycle Bins", category |-> "recycle",
     size |-> Get(recycle, "total_size_bytes", 0),
     children |-> [i \in 1..Len(recycle.bins) |-> RecycleChild(recycle.bins[i])]]
\* lines 158-164
LogsNode(logs) ==
    [name |-> "Log Files", category |-> "logs",
     size |-> Get(logs, "total_size_bytes", 0),
     children |-> [i \in 1..Len(logs.logs) |-> LogChild(logs.logs[i])]]
\* lines 179-185
DupesNode(dupes) ==
    [name |-> "Duplicate Files (wasted)", category |-> "duplicates",
     size |-> Get(dupes, "total_wasted_bytes", 0),
     children |-> [i \in 1..Len(dupes.groups) |-> GroupChild(dupes.groups[i])]]

max_depth == 5

\* tree_to_treemap_json(node, depth, max_depth), node the dict with key k of
\* the tree t (human_size and modified, which nothing reads, left out)
RECURSIVE tree_to_treemap_json(_, _, _)
tree_to_treemap_json(t, k, depth) ==
    IF ~t[k].isDir
    THEN [name |-> t[k].name, size |-> t[k].size, path |-> t[k].path]
    ELSE IF SortedChildren(t, k) # <<>> /\ depth < max_depth
         THEN [name |-> t[k].name, size |-> t[k].size,
               children |-> [i \in 1..Len(SortedChildren(t, k)) |->
                               tree_to_treemap_json(t, SortedChildren(t, k)[i], depth + 1)]]
         ELSE [name |-> t[k].name, size |-> t[k].size]

\* lines 117-120: tree_to_treemap_json(tree) renamed and tagged
FilesNode(t) ==
    LET treemap_data == tree_to_treemap_json(t, RootKey, 0)
    IN  IF "children" \in DOMAIN treemap_data
        THEN [name |-> "Files by Directory", category |-> "files",
              size |-> treemap_data.size, children |-> treemap_data.children]
        ELSE [name |-> "Files by Directory", category |-> "files",
              size |-> treemap_data.size]

FileRecord(path, size) == [path |-> path, size |-> size, keys |-> {"path", "size"}]

LargeFileReports ==
    { <<>>,
      <<FileRecord(<<"/", "a", "/", "f">>, 1), FileRecord(<<"/", "a", "/", "g">>, 2)>>,
      <<FileRecord(<<"/", "a", "/", "f">>, 1), FileRecord(<<"/", "b">>, 2),
        FileRecord(<<"/", "a", "/", "f">>, 2)>>,
      <<FileRecord(<<"/", "a", "/", "f">>, 1),
        FileRecord(<<"/", "a", "/", "f", "/", "h">>, 2)>> }

RecycleReports ==
    { NoReport,
      RecycleReport({"bins", "total_size_bytes"}, 3, <<>>),
      RecycleReport({"total_size_bytes"}, 3, <<>>),
      RecycleReport({"bins", "total_size_bytes"}, 3,
                    <<Bin("photo", <<>>, 1, 1), Bin("video", <<>>, 2, 2)>>),
      RecycleReport({"bins", "total_size_bytes"}, 0, <<Bin("photo", <<>>, 3, 1)>>),
      RecycleReport({"bins"}, 0, <<Bin("photo", <<>>, 3, 1)>>),
      RecycleReport({"bins", "total_size_bytes"}, 3,
                    <<[keys |-> {"share"}, share |-> "photo"]>>) }

LogsReports ==
    { NoReport,
      LogsReport({"logs", "total_size_bytes"}, 3, <<>>),
      LogsReport({"logs", "total_size_bytes"}, 3,
                 <<LogEntry(<<"/var/log/", "messages">>, 2, FALSE),
                   LogEntry(<<"/var/log/", "messages.1", ".gz">>, 1, TRUE)>>),
      LogsReport({"logs", "total_size_bytes"}, 4,
                 <<LogEntry(<<"/var/log/", "messages">>, 2, FALSE)>>),
      LogsReport({"logs"}, 0, <<LogEntry(<<"/var/log/", "messages">>, 2, FALSE)>>) }

DupesReports ==
    { NoReport,
      DupesReport({"groups", "total_wasted_bytes"}, 2, <<>>),
      DupesReport({"groups", "total_wasted_bytes"}, 3,
                  <<Group(2, 1, 1), Group(3, 1, 2)>>),
      DupesReport({"groups", "total_wasted_bytes"}, 1, <<Group(3, 1, 2)>>),
      DupesReport({"groups"}, 0, <<Group(2, 1, 1)>>) }

\* lines 114-120: if large_files and isinstance(large_files, list) ...
CatFiles ==
    /\ cpc = "files"
    /\ categories' =
         IF reports.large_files # <<>> /\ build_directory_tree(reports.large_files).ok
         THEN Append(categories, FilesNode(build_directory_tree(reports.large_files).tree))
         ELSE categories
    /\ cpc' = IF reports.large_files # <<>> /\ ~build_directory_tree(reports.large_files).ok
              THEN "error" ELSE "recycle"
    /\ UNCHANGED reports

\* lines 123-142
CatRecycle ==
    /\ cpc = "recycle"
    /\ categories' =
         IF reports.recycle_bins.present /\ Get(reports.recycle_bins, "bins", <<>>) # <<>>
         THEN Append(categories, RecycleNode(reports.recycle_bins))
         ELSE categories
    /\ cpc' = "logs"
    /\ UNCHANGED reports

\* lines 145-164
CatLogs ==
    /\ cpc = "logs"
    /\ categories' =
         IF reports.logs.present /\ Get(reports.logs, "logs", <<>>) # <<>>
         THEN Append(categories, LogsNode(reports.logs))
         ELSE categories
    /\ cpc' = "dupes"
    /\ UNCHANGED reports

\* lines 167-187
CatDupes ==
    /\ cpc = "dupes"
    /\ categories' =
         IF reports.duplicates.present /\ Get(reports.duplicates, "groups", <<>>) # <<>>
         THEN Append(categories, DupesNode(reports.duplicates))
         ELSE categories
    /\ cpc' = "done"
    /\ UNCHANGED reports

-----------------------------------------------------------------------------
(* _build_treemap_data (src/report.py, lines 288-318). A path is a string,  *)
(* here the sequence of its characters. An entry of large_dirs is a dict:   *)
(* keys is the set of keys it has.                                          *)

MaxDirs == 3

\* s[n:]
SliceFrom(s, n) == SubSeq(s, n + 1, Len(s))
\* s.startswith(p)
StartsWith(s, p) == Len(p) <= Len(s) /\ SubSeq(s, 1, Len(p)) = p
\* "/" in s
HasSlash(s) == \E i \in 1..Len(s) : s[i] = "/"

\* s.split("/")[-1]
RECURSIVE LastPart(_)
LastPart(s) ==
    IF s = <<>> THEN <<>>
    ELSE IF s[Len(s)] = "/" THEN <<>>
    ELSE LastPart(SubSeq(s, 1, Len(s) - 1)) \o <<s[Len(s)]>>

DefaultRootPath == <<"/", "v", "o", "l", "u", "m", "e", "1">>
NAS == <<"N", "A", "S">>

\* names.get(dirname, dirname)
_friendly_name(dirname) ==
       IF dirname = <<"@", "s", "y", "n", "o", "l", "o", "g", "y", "d", "r", "i", "v", "e">>
       THEN <<"S", "y", "n", "o", "l", "o", "g", "y", " ", "D", "r", "i", "v", "e">>
  ELSE
       IF dirname = <<"s", "u", "r", "v", "e", "i", "l", "l", "a", "n", "c", "e">>
       THEN <<"S", "u", "r", "v", "e", "i", "l", "l", "a", "n", "c", "e">>
  ELSE
       IF dirname = <<"p", "h", "o", "t", "o">>
       THEN <<"P", "h", "o", "t", "o", "s">>
  ELSE
       IF dirname = <<"h", "o", "m", "e", "s">>
       THEN <<"U", "s", "e", "r", " ", "H", "o", "m", "e", "s">>
  ELSE
       IF dirname = <<"d", "o", "w", "n", "l", "o", "a", "d", "s">>
       THEN <<"D", "o", "w", "n", "l", "o", "a", "d", "s">>
  ELSE
       IF dirname = <<"i", "C", "l", "o", "u", "d", "B", "a", "c", "k", "u", "p">>
       THEN <<"i", "C", "l", "o", "u", "d", " ", "B", "a", "c", "k", "u", "p">>
  ELSE
       IF dirname = <<"T", "i", "m", "e", " ", "M", "a", "c", "h", "i", "n", "e">>
       THEN <<"T", "i", "m", "e", " ", "M", "a", "c", "h", "i", "n", "e">>
  ELSE
       IF dirname = <<"d", "o", "c", "k", "e", "r">>
       THEN <<"D", "o", "c", "k", "e", "r">>
  ELSE
       IF dirname = <<"m", "u", "s", "i", "c">>
       THEN <<"M", "u", "s", "i", "c">>
  ELSE
       IF dirname = <<"v", "i", "d", "e", "o">>
       THEN <<"V", "i", "d", "e", "o">>
  ELSE
       IF dirname = <<"w", "e", "b">>
       THEN <<"W", "e", "b", " ", "S", "t", "a", "t", "i", "o", "n">>
  ELSE dirname

\* d.get("path", default)
EntryPath(d, default) == IF "path" \in d.keys THEN d.path ELSE default
\* d.get("size_kb", d.get("size", 0))
EntrySize(d) ==
    IF "size_kb" \in d.keys THEN d.size_kb
    ELSE IF "size" \in d.keys THEN d.size ELSE 0
\* d.get("human_size", "?")
EntryHuman(d) == IF "human_size" \in d.keys THEN d.human_size ELSE "?"

\* lines 303-306: rel
Rel(root_path, path) ==
    LET rel == SliceFrom(path, Len(root_path))
    IN IF StartsWith(rel, <<"/">>) THEN SliceFrom(rel, 1) ELSE rel

\* line 307: if "/" not in rel and rel
Emitted(root_path, path) ==
    LET rel == Rel(root_path, path) IN ~HasSlash(rel) /\ rel # <<>>

\* lines 308-312
ChildOf(root_path, d) ==
    [name |-> _friendly_name(Rel(root_path, EntryPath(d, <<>>))),
     size |-> EntrySize(d),
     human_size |-> EntryHuman(d)]

\* lines 290-291: the dict returned for an empty or non-list argument
EmptyTreemap == [name |-> NAS, size |-> 0, human_size |-> "0 B", children |-> <<>>]

Entry(p, kb) ==
    [keys |-> {"path", "size_kb", "human_size"}, path |-> p, size_kb |-> kb,
     size |-> 0, human_size |-> "2 KB"]

RootEntries ==
    { Entry(<<"/", "v">>, 3),
      Entry(<<>>, 3),
      [keys |-> {"size"}, path |-> <<>>, size_kb |-> 0, size |-> 3,
       human_size |-> "?"] }

DirEntries ==
    { Entry(<<"/", "v", "/", "a">>, 2),
      Entry(<<"/", "v", "/", "a", "/", "b">>, 1),
      Entry(<<"/", "v", "/", "p", "h", "o", "t", "o">>, 2),
      Entry(<<"/", "w", "/", "a">>, 2),
      Entry(<<"/", "v", "a">>, 2),
      Entry(<<"/", "v">>, 2),
      Entry(DefaultRootPath \o <<"/", "a">>, 2),
      [keys |-> {"size"}, path |-> <<>>, size_kb |-> 0, size |-> 1,
       human_size |-> "?"] }

\* the lists _build_treemap_data is called with: the root volume first
LargeDirLists ==
    {<<>>} \cup
    UNION { { <<r>> \o rest : r \in RootEntries, rest \in [1..n -> DirEntries] }
            : n \in 0..(MaxDirs - 1) }

RootPathOf(dirs) == EntryPath(dirs[1], DefaultRootPath)

\* lines 290-296: the early return, root, root_path, root_size
ReportEnter ==
    /\ rpc = "call"
    /\ IF large_dirs = <<>>
       THEN /\ treemapData' = EmptyTreemap
            /\ rpc' = "done"
            /\ UNCHANGED ridx
       ELSE /\ ridx' = 2
            /\ rpc' = "loop"
            /\ UNCHANGED treemapData
    /\ UNCHANGED <<large_dirs, children>>

\* lines 300-312: one iteration of for d in large_dirs[1:]
ReportStep ==
    /\ rpc = "loop"
    /\ ridx <= Len(large_dirs)
    /\ LET d == large_dirs[ridx]
       IN children' = IF Emitted(RootPathOf(large_dirs), EntryPath(d, <<>>))
                      THEN Append(children, ChildOf(RootPathOf(large_dirs), d))
                      ELSE children
    /\ ridx' = ridx + 1
    /\ UNCHANGED <<large_dirs, treemapData, rpc>>

\* lines 313-318
ReportReturn ==
    /\ rpc = "loop"
    /\ ridx > Len(large_dirs)
    /\ treemapData' =
         [name |-> IF LastPart(RootPathOf(large_dirs)) # <<>>
                   THEN LastPart(RootPathOf(large_dirs)) ELSE NAS,
          size |-> EntrySize(large_dirs[1]),
          human_size |-> EntryHuman(large_dirs[1]),
          children |-> children]
    /\ rpc' = "done"
    /\ UNCHANGED <<large_dirs, ridx, children>>

-----------------------------------------------------------------------------
(* cleanup.py: confirm, run_cmd, the cleanup functions and the menu loop.   *)
(* The program stops at every input(); pos is the prompt it waits at (or    *)
(* the statement it is about to run), and one action is the code from one   *)
(* prompt to the next. effects and granted record what the running cleanup  *)
(* function did and which of its confirm() calls returned True.             *)

MaxFreed == 4    \* the menu is offered while total_freed is below this

\* data[:20], min(20, len(data))
TopN == 20

\* the path of a recycle bin: the pieces of the string, '#recycle' on its own
PathOk1   == <<"/volume1/photo/", "#recycle">>
PathOk2   == <<"/volume1/video/", "#recycle">>
PathPlain == <<"/volume1/docs">>
PathGone  == <<"/volume1/gone/", "#recycle">>

\* os.path.isdir(path): the directories of the file system
IsDir(path) == path \in {PathOk1, PathOk2, PathPlain}
\* "#recycle" in path
HasRecycle(path) == \E i \in 1..Len(path) : path[i] = "#recycle"

\* lines 129-134 and 148-151: a bin without this is skipped
ValidBinAnyDir(path) == path # <<>> /\ IsDir(path)
ValidBin(path) == path # <<>> /\ IsDir(path) /\ HasRecycle(path)

\* path.endswith((".gz", ".bz2", ".xz", ".zip", ".old"))
IsArchive(path) == path[Len(path)] \in {".gz", ".bz2", ".xz", ".zip", ".old"}

Snapshot(is_old, exclusive_bytes) ==
    [keys |-> {"is_old", "exclusive_bytes"}, is_old |-> is_old,
     exclusive_bytes |-> exclusive_bytes]
SnapshotsReport(available, snapshots) ==
    [present |-> TRUE, keys |-> {"available", "snapshots"},
     available |-> available, snapshots |-> snapshots]
DockerReport(available, dangling_images, stopped_containers, unused_volumes) ==
    [present |-> TRUE,
     keys |-> {"available", "dangling_images", "stopped_containers", "unused_volumes"},
     available |-> available, dangling_images |-> dangling_images,
     stopped_containers |-> stopped_containers, unused_volumes |-> unused_volumes]

\* what load_module_json finds on disk
Datasets ==
    { [recycle_bins |-> RecycleReport({"bins", "total_size_bytes"}, 3,
                          <<Bin("photo", PathOk1, 1, 2), Bin("docs", PathPlain, 2, 1)>>),
       snapshots |-> SnapshotsReport(TRUE,
                          <<Snapshot(TRUE, 2), Snapshot(FALSE, 1), Snapshot(TRUE, 1)>>),
       docker |-> DockerReport(TRUE, 1, 0, 2),
       logs |-> LogsReport({"logs", "total_size_bytes"}, 7,
                          <<LogEntry(<<"/var/log/", "messages.1", ".gz">>, 1, TRUE),
                            LogEntry(<<"/var/log/", "messages">>, 2, TRUE),
                            LogEntry(<<"/var/log/", "auth.log">>, 4, FALSE)>>),
       large_files |-> <<FileRecord(<<"/volume1/a.iso">>, 2),
                         FileRecord(<<"/volume1/b.iso">>, 1)>>],
      [recycle_bins |-> RecycleReport({"bins", "total_size_bytes"}, 4,
                          <<Bin("gone", PathGone, 1, 1), Bin("nopath", <<>>, 2, 1),
                            Bin("video", PathOk2, 1, 0)>>),
       snapshots |-> SnapshotsReport(TRUE, <<Snapshot(FALSE, 1)>>),
       docker |-> DockerReport(TRUE, 0, 1, 0),
       logs |-> LogsReport({"logs", "total_size_bytes"}, 1,
                          <<LogEntry(<<>>, 1, TRUE)>>),
       large_files |-> <<>>],
      [recycle_bins |-> NoReport,
       snapshots |-> SnapshotsReport(FALSE, <<>>),
       docker |-> NoReport,
       logs |-> LogsReport({"logs", "total_size_bytes"}, 4,
                          <<LogEntry(<<"/var/log/", "auth.log">>, 4, FALSE)>>),
       large_files |-> <<>>] }

\* response.strip().lower() of the lines the user may type
Normalize(response) ==
    CASE response = "y" -> "y"
      [] response = " YES " -> "yes"
      [] response = "n" -> "n"
      [] response = "No" -> "no"
      [] response = "" -> ""
      [] response = "  " -> ""
      [] response = "ok" -> "ok"

\* what the user types at one confirm(): the lines up to the first accepted
ConfirmInputs ==
    { <<"y">>, <<" YES ">>, <<"n">>, <<"No">>, <<"">>, <<"ok", "  ">>, <<"ok", "y">> }

\* lines 64-70: the response that ends the while loop
RECURSIVE AnswerOf(_)
AnswerOf(responses) ==
    LET response == Normalize(Head(responses))
    IN  IF response \in {"y", "yes", "n", "no", ""} THEN response
        ELSE AnswerOf(Tail(responses))

\* confirm without the DRY_RUN test
confirmIgnoresDryRun(responses) == AnswerOf(responses) \in {"y", "yes"}
\* confirm with [Y/n] semantics: the empty answer accepts
confirmDefaultYes(responses) ==
    IF DRY_RUN THEN FALSE ELSE AnswerOf(responses) \in {"y", "yes", ""}
\* lines 60-70
confirm(responses) ==
    IF DRY_RUN THEN FALSE ELSE AnswerOf(responses) \in {"y", "yes"}

\* the entry of granted for a confirm() that returned True
Grant(prompt, i, responses) ==
    IF confirm(responses)
    THEN granted \cup {[prompt |-> prompt, i |-> i, answer |-> AnswerOf(responses)]}
    ELSE granted

\* lines 73-91: ran: subprocess.run was called; ok: the return value
CmdOutcomes == {"ok", "failed", "timeout"}
run_cmd(outcome) == [ran |-> ~DRY_RUN, ok |-> DRY_RUN \/ outcome = "ok"]

Effect(kind, on, ok) == [kind |-> kind, target |-> on, ok |-> ok]

\* the effects of one run_cmd call
CmdEffects(kind, on, outcome) ==
    IF run_cmd(outcome).ran THEN <<Effect(kind, on, run_cmd(outcome).ok)>> ELSE <<>>

\* lines 129-142 and 148-162: one bin of either branch. outcome: "removed",
\* "failed" (OSError on an item, caught) or "raise" (OSError of iterdir)
RemovalOutcomes == {"removed", "failed", "raise"}
EmptyBin(b, i, outcome) ==
    IF ~ValidBin(Get(b, "path", <<>>))
    THEN [freed |-> 0, effects |-> <<>>, raised |-> FALSE]
    ELSE IF DRY_RUN
    THEN [freed |-> Get(b, "size_bytes", 0), effects |-> <<>>, raised |-> FALSE]
    ELSE IF outcome = "raise"
    THEN [freed |-> 0, effects |-> <<Effect("empty_bin", i, FALSE)>>, raised |-> TRUE]
    ELSE [freed |-> Get(b, "size_bytes", 0),
          effects |-> <<Effect("empty_bin", i, outcome = "removed")>>,
          raised |-> FALSE]

\* lines 128-141: for b in bins of the empty-all branch, from bin i on
RECURSIVE EmptyAll(_, _, _)
EmptyAll(bins, i, outcomes) ==
    IF i > Len(bins) THEN [freed |-> 0, effects |-> <<>>, raised |-> FALSE]
    ELSE LET one == EmptyBin(bins[i], i, outcomes[i])
         IN  IF one.raised THEN one
             ELSE LET rest == EmptyAll(bins, i + 1, outcomes)
                  IN  [freed |-> one.freed + rest.freed,
                       effects |-> one.effects \o rest.effects,
                       raised |-> rest.raised]

\* lines 179 and 254
old_snaps == SelectSeq(Get(data.snapshots, "snapshots", <<>>),
                       LAMBDA s : Get(s, "is_old", FALSE))
safe_logs == SelectSeq(Get(data.logs, "logs", <<>>),
                       LAMBDA l : Get(l, "safe_to_clean", FALSE))

\* lines 190-196: for s in old_snaps of the remove-all branch, from i on
RECURSIVE RemoveAll(_, _)
RemoveAll(i, outcomes) ==
    IF i > Len(old_snaps) THEN [freed |-> 0, effects |-> <<>>]
    ELSE LET rest == RemoveAll(i + 1, outcomes)
         IN  [freed |-> (IF run_cmd(outcomes[i]).ok
                         THEN Get(old_snaps[i], "exclusive_bytes", 0) ELSE 0)
                        + rest.freed,
              effects |-> CmdEffects("btrfs_delete", i, outcomes[i]) \o rest.effects]

\* lines 264-288: one log of for l in safe_logs. outcome: "ok" or "failed"
FileOutcomes == {"ok", "failed"}
CleanLog(l, i, outcome) ==
    IF Get(l, "path", <<>>) = <<>> \/ DRY_RUN
    THEN [freed |-> 0, effects |-> <<>>]
    ELSE [freed |-> IF outcome = "ok" THEN Get(l, "size_bytes", 0) ELSE 0,
          effects |-> <<Effect(IF IsArchive(l.path) THEN "log_unlink" ELSE "log_truncate",
                               i, outcome = "ok")>>]

RECURSIVE CleanAll(_, _)
CleanAll(i, outcomes) ==
    IF i > Len(safe_logs) THEN [freed |-> 0, effects |-> <<>>]
    ELSE LET one == CleanLog(safe_logs[i], i, outcomes[i])
             rest == CleanAll(i + 1, outcomes)
         IN  [freed |-> one.freed + rest.freed, effects |-> one.effects \o rest.effects]

\* positions
At(at, i) == [at |-> at, i |-> i]
Return  == At("return", 0)
Crashed == At("crashed", 0)

\* lines 145-147: the next bin of the per-share loop that is asked about
RECURSIVE NextShare(_, _)
NextShare(bins, i) ==
    IF i > Len(bins) THEN Return
    ELSE IF Get(bins[i], "file_count", 0) > 0 THEN At("recycle_share", i)
    ELSE NextShare(bins, i + 1)

\* lines 198-199
NextSnapshot(i) == IF i > Len(old_snaps) THEN Return ELSE At("snapshot", i)

\* lines 224-237: the next docker prompt: 1 images, 2 containers, 3 volumes
\* (each asked only when its count is positive), 4 build cache
DockerCount(i) ==
    CASE i = 1 -> Get(data.docker, "dangling_images", 0)
      [] i = 2 -> Get(data.docker, "stopped_containers", 0)
      [] i = 3 -> Get(data.docker, "unused_volumes", 0)
RECURSIVE NextDocker(_)
NextDocker(i) ==
    IF i > 4 THEN Return
    ELSE IF i = 4 THEN At("docker", 4)
    ELSE IF DockerCount(i) > 0 THEN At("docker", i)
    ELSE NextDocker(i + 1)

\* lines 323-324: the next index of for idx in indices that is in range
RECURSIVE SkipInvalid(_)
SkipInvalid(idxs) ==
    IF idxs = <<>> THEN <<>>
    ELSE IF 0 <= Head(idxs) /\ Head(idxs) < (IF TopN < Len(data.large_files)
                                             THEN TopN ELSE Len(data.large_files))
    THEN idxs
    ELSE SkipInvalid(Tail(idxs))
NextFile(idxs) == IF SkipInvalid(idxs) = <<>> THEN Return ELSE At("large_file", 0)

\* where a cleanup function first stops: its first prompt, or its return when
\* it has nothing to offer
StartOf(fn) ==
    CASE fn = "recycle_bins" ->
           IF ~data.recycle_bins.present \/ Get(data.recycle_bins, "bins", <<>>) = <<>>
           THEN Return ELSE At("recycle_all", 0)
      [] fn = "snapshots" ->
           IF ~data.snapshots.present \/ ~Get(data.snapshots, "available", FALSE)
           THEN Return
           ELSE IF old_snaps = <<>> THEN Return ELSE At("snapshot_all", 0)
      [] fn = "docker" ->
           IF ~data.docker.present \/ ~Get(data.docker, "available", FALSE)
           THEN Return ELSE NextDocker(1)
      [] fn = "logs" ->
           IF ~data.logs.present \/ Get(data.logs, "logs", <<>>) = <<>> THEN Return
           ELSE IF safe_logs = <<>> THEN Return ELSE At("logs_all", 0)
      [] fn = "large_files" ->
           IF data.large_files = <<>> THEN Return
           ELSE IF DRY_RUN THEN Return ELSE At("large_select", 0)

\* lines 385-400: the cleanup functions of a menu choice
Calls(c) ==
    CASE c = "1" -> <<"recycle_bins">>
      [] c = "2" -> <<"snapshots">>
      [] c = "3" -> <<"docker">>
      [] c = "4" -> <<"logs">>
      [] c = "5" -> <<"large_files">>
      [] c = "6" -> <<"recycle_bins", "snapshots", "docker", "logs", "large_files">>
      [] OTHER -> <<>>

\* input(...).strip() of the lines the user may type at the menu
MenuInputs == {"0", "1", "2", "3", "4", "5", "6", " 6 ", "7", ""}
StripChoice(line) == IF line = " 6 " THEN "6" ELSE line

\* the user's line at "Enter file numbers to delete": 'skip', text that is
\* not a list of numbers, or the numbers
SelectInputs ==
    { [kind |-> "skip", numbers |-> <<>>],
      [kind |-> "invalid", numbers |-> <<>>],
      [kind |-> "numbers", numbers |-> <<1>>],
      [kind |-> "numbers", numbers |-> <<2, 1>>],
      [kind |-> "numbers", numbers |-> <<0, 3, 2>>],
      [kind |-> "numbers", numbers |-> <<21>>] }

\* lines 376-402: one pass of the menu loop up to the first prompt
MenuChoice(line) ==
    /\ pos.at = "menu"
    /\ total_freed < MaxFreed
    /\ choice' = StripChoice(line)
    /\ IF StripChoice(line) = "0"
       THEN pos' = At("exit", 0) /\ todo' = <<>>
       ELSE IF Calls(StripChoice(line)) = <<>>
       THEN pos' = At("pause", 0) /\ todo' = <<>>
       ELSE /\ pos' = StartOf(Head(Calls(StripChoice(line))))
            /\ todo' = Tail(Calls(StripChoice(line)))
    /\ UNCHANGED <<DRY_RUN, data, indices, freed, total_freed, effects, granted>>

\* lines 379-381: EOFError or KeyboardInterrupt at the menu
MenuEOF ==
    /\ pos.at = "menu"
    /\ pos' = At("exit", 0)
    /\ UNCHANGED <<DRY_RUN, data, todo, choice, indices, freed, total_freed,
                   effects, granted>>

\* line 402
PressEnter ==
    /\ pos.at = "pause"
    /\ pos' = At("menu", 0)
    /\ UNCHANGED <<DRY_RUN, data, todo, choice, indices, freed, total_freed,
                   effects, granted>>

\* return freed; total_freed += ...; then the next call of the choice
FnReturn ==
    /\ pos.at = "return"
    /\ total_freed' = total_freed + freed
    /\ freed' = 0
    /\ effects' = <<>>
    /\ granted' = {}
    /\ indices' = <<>>
    /\ IF todo = <<>>
       THEN pos' = At("pause", 0) /\ UNCHANGED todo
       ELSE pos' = StartOf(Head(todo)) /\ todo' = Tail(todo)
    /\ UNCHANGED <<DRY_RUN, data, choice>>

\* lines 127-141: confirm("Empty ALL recycle bins?") and the branch taken
RecycleAll(responses, outcomes) ==
    /\ pos.at = "recycle_all"
    /\ granted' = Grant("recycle_all", 0, responses)
    /\ IF confirm(responses)
       THEN LET res == EmptyAll(data.recycle_bins.bins, 1, outcomes)
            IN  /\ freed' = freed + res.freed
                /\ effects' = effects \o res.effects
                /\ pos' = IF res.raised THEN Crashed ELSE Return
       ELSE /\ pos' = NextShare(data.recycle_bins.bins, 1)
            /\ UNCHANGED <<freed, effects>>
    /\ UNCHANGED <<DRY_RUN, data, todo, choice, indices, total_freed>>

\* lines 146-162: confirm("Empty <share>/#recycle?") for one bin
RecycleShare(responses, outcome) ==
    /\ pos.at = "recycle_share"
    /\ granted' = Grant("recycle_share", pos.i, responses)
    /\ IF confirm(responses)
       THEN LET res == EmptyBin(data.recycle_bins.bins[pos.i], pos.i, outcome)
            IN  /\ freed' = freed + res.freed
                /\ effects' = effects \o res.effects
                /\ pos' = IF res.raised THEN Crashed
                          ELSE NextShare(data.recycle_bins.bins, pos.i + 1)
       ELSE /\ pos' = NextShare(data.recycle_bins.bins, pos.i + 1)
            /\ UNCHANGED <<freed, effects>>
    /\ UNCHANGED <<DRY_RUN, data, todo, choice, indices, total_freed>>

\* lines 190-196: confirm("Remove all old snapshots?")
SnapshotAll(responses, outcomes) ==
    /\ pos.at = "snapshot_all"
    /\ granted' = Grant("snapshot_all", 0, responses)
    /\ IF confirm(responses)
       THEN /\ freed' = freed + RemoveAll(1, outcomes).freed
            /\ effects' = effects \o RemoveAll(1, outcomes).effects
            /\ pos' = Return
       ELSE /\ pos' = NextSnapshot(1)
            /\ UNCHANGED <<freed, effects>>
    /\ UNCHANGED <<DRY_RUN, data, todo, choice, indices, total_freed>>

\* lines 198-204: confirm("Remove snapshot <id>?") for one snapshot
SnapshotOne(responses, outcome) ==
    /\ pos.at = "snapshot"
    /\ granted' = Grant("snapshot", pos.i, responses)
    /\ IF confirm(responses)
       THEN /\ freed' = freed + (IF run_cmd(outcome).ok
                                 THEN Get(old_snaps[pos.i], "exclusive_bytes", 0)
                                 ELSE 0)
            /\ effects' = effects \o CmdEffects("btrfs_delete", pos.i, outcome)
       ELSE UNCHANGED <<freed, effects>>
    /\ pos' = NextSnapshot(pos.i + 1)
    /\ UNCHANGED <<DRY_RUN, data, todo, choice, indices, total_freed>>

\* lines 224-237: one of the four docker prompts and its prune command
DockerPrune(responses, outcome) ==
    /\ pos.at = "docker"
    /\ granted' = Grant("docker", pos.i, responses)
    /\ effects' = IF confirm(responses)
                  THEN effects \o CmdEffects("docker_prune", pos.i, outcome)
                  ELSE effects
    /\ pos' = NextDocker(pos.i + 1)
    /\ UNCHANGED <<DRY_RUN, data, todo, choice, indices, freed, total_freed>>

\* lines 262-290: confirm("Clean all safe log files?")
LogsAll(responses, outcomes) ==
    /\ pos.at = "logs_all"
    /\ granted' = Grant("logs_all", 0, responses)
    /\ IF confirm(responses)
       THEN /\ freed' = freed + CleanAll(1, outcomes).freed
            /\ effects' = effects \o CleanAll(1, outcomes).effects
       ELSE UNCHANGED <<freed, effects>>
    /\ pos' = Return
    /\ UNCHANGED <<DRY_RUN, data, todo, choice, indices, total_freed>>

\* lines 313-321: the file numbers typed at "> "
LargeSelect(response) ==
    /\ pos.at = "large_select"
    /\ IF response.kind = "numbers"
       THEN /\ indices' = SkipInvalid([k \in 1..Len(response.numbers) |->
                                         response.numbers[k] - 1])
            /\ pos' = NextFile([k \in 1..Len(response.numbers) |->
                                  response.numbers[k] - 1])
       ELSE /\ indices' = <<>>
            /\ pos' = Return
    /\ UNCHANGED <<DRY_RUN, data, todo, choice, freed, total_freed, effects, granted>>

\* lines 325-334: confirm("Delete <path>?") for one index; data[idx] is the
\* record at position idx + 1
LargeFile(responses, outcome) ==
    /\ pos.at = "large_file"
    /\ granted' = Grant("large_file", Head(indices), responses)
    /\ IF confirm(responses)
       THEN /\ freed' = freed + (IF outcome = "ok"
                                 THEN Get(data.large_files[Head(indices) + 1], "size", 0)
                                 ELSE 0)
            /\ effects' = Append(effects, Effect("file_unlink", Head(indices), outcome = "ok"))
       ELSE UNCHANGED <<freed, effects>>
    /\ indices' = SkipInvalid(Tail(indices))
    /\ pos' = NextFile(Tail(indices))
    /\ UNCHANGED <<DRY_RUN, data, todo, choice, total_freed>>

-----------------------------------------------------------------------------
(* render() of the page (src/treemap.py, lines 402-479) on the data that    *)
(* build_category_data emitted: the layout of the children of the current   *)
(* node and one nested level. A node is its dict here; the _category tags   *)
(* and the click handlers are modelled on node ids in the navigation part.  *)

NoContainer == [W |-> 0, H |-> 0]
NoNode == [name |-> "", size |-> 0]

\* the sizes of the container the page is rendered in
Containers == {[W |-> 200, H |-> 100], [W |-> 60, H |-> 40]}

\* (node.children || [])
ChildList(node) == IF "children" \in DOMAIN node THEN node.children ELSE <<>>
\* (a.size || 0)
SizeOf(node) == IF "size" \in DOMAIN node THEN node.size ELSE 0

RECURSIVE SumNodeSizes(_)
SumNodeSizes(list) ==
    IF list = <<>> THEN 0 ELSE SizeOf(Head(list)) + SumNodeSizes(Tail(list))

\* the 'All Categories' object of init and of the select handler
AllCategories(all_data) ==
    [name |-> "All Categories", size |-> SumNodeSizes(all_data), children |-> all_data]

\* the stable sort of Array.prototype.sort with the comparator
\* (a, b) => (b.size || 0) - (a.size || 0), as the positions in the stored list
RECURSIVE SortFrom(_, _)
SortFrom(list, idx) ==
    IF idx = {} THEN <<>>
    ELSE LET i == CHOOSE x \in idx :
                     \A y \in idx : \/ SizeOf(list[x]) > SizeOf(list[y])
                                    \/ SizeOf(list[x]) = SizeOf(list[y]) /\ x <= y
         IN  <<i>> \o SortFrom(list, idx \ {i})

\* the list passed on as it is stored
SortKeepsStoredOrder(list) == [i \in 1..Len(list) |-> i]

\* [...list].sort((a, b) => (b.size || 0) - (a.size || 0))
SortBySizeDesc(list) == SortFrom(list, 1..Len(list))

\* one call of squarify as the log keeps it
SquarifyCall(level, parent, list, order, c) ==
    [level |-> level, parent |-> parent,
     stored |-> [i \in 1..Len(list) |-> SizeOf(list[i])], order |-> order, c |-> c]

\* the loop over innerRects (lines 438-459): what it adds to the parent's div
RECURSIVE InnerDrawn(_, _)
InnerDrawn(innerRects, top) ==
    IF innerRects = <<>> THEN <<>>
    ELSE LET ir == Head(innerRects)
         IN  (IF QLt(ir.w, Num(3)) \/ QLt(ir.h, Num(3)) THEN <<>>
              ELSE <<[level |-> 1, top |-> top, item |-> ir.item,
                      x |-> QAdd(ir.x, Num(1)), y |-> QAdd(ir.y, Num(1)),
                      w |-> ir.w, h |-> ir.h]>>)
             \o InnerDrawn(Tail(innerRects), top)

\* the reports of a NAS with an empty recycle bin beside a used one
RenderReports ==
    [large_files  : LargeFileReports \cup {<<FileRecord(<<"/", "a">>, 0)>>},
     recycle_bins : {NoReport,
                     RecycleReport({"bins", "total_size_bytes"}, 3,
                                   <<Bin("photo", <<>>, 1, 1), Bin("video", <<>>, 2, 2)>>),
                     RecycleReport({"bins", "total_size_bytes"}, 3,
                                   <<Bin("photo", <<>>, 3, 1), Bin("video", <<>>, 0, 0)>>)},
     logs         : {NoReport,
                     LogsReport({"logs", "total_size_bytes"}, 4,
                                <<LogEntry(<<"/var/log/", "messages">>, 3, FALSE),
                                  LogEntry(<<"/var/log/", "messages.1", ".gz">>, 1, TRUE)>>)},
     duplicates   : {NoReport,
                     DupesReport({"groups", "total_wasted_bytes"}, 3,
                                 <<Group(2, 1, 1), Group(3, 1, 2)>>)}]

\* render() up to the call of squarify on the sorted children (lines 402-415),
\* on the 'All Categories' object (v = 0) or on category v, as init and the
\* select handler set currentData; main writes no page for an empty list of
\* categories (lines 613-616)
RenderStart(v, box) ==
    /\ cpc = "done"
    /\ categories # <<>>
    /\ rnd = "load"
    /\ v \in 0..Len(categories)
    /\ LET node  == IF v = 0 THEN AllCategories(categories) ELSE categories[v]
           list  == ChildList(node)
           order == SortBySizeDesc(list)
           c     == [x |-> Zero, y |-> Zero, w |-> Num(box.W), h |-> Num(box.H)]
       IN  /\ shown' = node
           /\ container' = box
           /\ IF Len(list) = 0
              THEN /\ rnd' = "done"
                   /\ UNCHANGED <<sorted, calls, sqVars>>
              ELSE /\ sorted' = [i \in 1..Len(list) |-> list[order[i]]]
                   /\ calls' = Append(calls, SquarifyCall(0, 0, list, order, c))
                   /\ items' = [i \in 1..Len(list) |-> SizeOf(list[order[i]])]
                   /\ target' = c
                   /\ remainingItems' = <<>>
                   /\ cur' = IdleRect
                   /\ rects' = <<>>
                   /\ spc' = "call"
                   /\ rnd' = "layout"
    /\ UNCHANGED <<topRects, ri, drawn>>

\* const rects = squarify(sorted, 0, 0, W, H) has returned (line 415)
RenderTop ==
    /\ rnd = "layout"
    /\ spc = "done"
    /\ topRects' = rects
    /\ ri' = 1
    /\ rnd' = "rects"
    /\ UNCHANGED <<container, shown, sorted, drawn, calls, sqVars>>

\* one pass of for (const r of rects), up to the nested call of squarify
\* (lines 423-437) or, without one, to the end of the pass
RenderRect ==
    /\ rnd = "rects"
    /\ ri <= Len(topRects)
    /\ LET r     == topRects[ri]
           list  == ChildList(sorted[r.item])
           order == SortBySizeDesc(list)
           c     == [x |-> Zero, y |-> Zero,
                     w |-> QSub(r.w, Num(2)), h |-> QSub(r.h, Num(2))]
       IN  IF QLt(r.w, Num(2)) \/ QLt(r.h, Num(2))
           THEN /\ ri' = ri + 1
                /\ UNCHANGED <<drawn, calls, rnd, sqVars>>
           ELSE /\ drawn' = Append(drawn, [level |-> 0, top |-> ri, item |-> r.item,
                                           x |-> r.x, y |-> r.y, w |-> r.w, h |-> r.h])
                /\ IF Len(list) > 0 /\ QGt(r.w, Num(40)) /\ QGt(r.h, Num(30))
                   THEN /\ calls' = Append(calls, SquarifyCall(1, ri, list, order, c))
                        /\ items' = [i \in 1..Len(list) |-> SizeOf(list[order[i]])]
                        /\ target' = c
                        /\ remainingItems' = <<>>
                        /\ cur' = IdleRect
                        /\ rects' = <<>>
                        /\ spc' = "call"
                        /\ rnd' = "inner"
                        /\ UNCHANGED ri
                   ELSE /\ ri' = ri + 1
                        /\ UNCHANGED <<calls, rnd, sqVars>>
    /\ UNCHANGED <<container, shown, sorted, topRects>>

\* the nested squarify has returned: the loop over innerRects (lines 438-460)
RenderInner ==
    /\ rnd = "inner"
    /\ spc = "done"
    /\ drawn' = drawn \o InnerDrawn(rects, ri)
    /\ ri' = ri + 1
    /\ rnd' = "rects"
    /\ UNCHANGED <<container, shown, sorted, topRects, calls, sqVars>>

\* the loop over rects is over (lines 474-479)
RenderDone ==
    /\ rnd = "rects"
    /\ ri > Len(topRects)
    /\ rnd' = "done"
    /\ UNCHANGED <<container, shown, sorted, topRects, ri, drawn, calls, sqVars>>

-----------------------------------------------------------------------------
(* Specifications                                                           *)

BuildNext ==
    \/ BuildStep /\ UNCHANGED <<sqVars, navVars, catVars, reportVars, cleanVars, renderVars>>
    \/ BuildReturn /\ UNCHANGED <<sqVars, navVars, catVars, reportVars, cleanVars, renderVars>>

SqNext ==
    \/ SqEnter /\ UNCHANGED <<buildVars, navVars, catVars, reportVars, cleanVars, renderVars>>
    \/ SqRow /\ UNCHANGED <<buildVars, navVars, catVars, reportVars, cleanVars, renderVars>>
    \/ SqReturn /\ UNCHANGED <<buildVars, navVars, catVars, reportVars, cleanVars, renderVars>>

NavNext ==
    \/ \E n \in Nodes : DrillDown(n) /\ UNCHANGED <<buildVars, sqVars, catVars, reportVars, cleanVars, renderVars>>
    \/ NavigateUp /\ UNCHANGED <<buildVars, sqVars, catVars, reportVars, cleanVars, renderVars>>
    \/ \E i \in 0..Len(navStack) : NavigateTo(i) /\ UNCHANGED <<buildVars, sqVars, catVars, reportVars, cleanVars, renderVars>>
    \/ SelectAll /\ UNCHANGED <<buildVars, sqVars, catVars, reportVars, cleanVars, renderVars>>
    \/ \E i \in 1..Len(ALL_DATA) : SelectCategory(i) /\ UNCHANGED <<buildVars, sqVars, catVars, reportVars, cleanVars, renderVars>>
    \/ Rerender /\ UNCHANGED <<buildVars, sqVars, catVars, reportVars, cleanVars, renderVars>>

\* the page with navigateTo run statement by statement and called with any
\* index from -1 to one past the length of the stack
NavToNext ==
    \/ \E n \in Nodes : DrillDown(n) /\ UNCHANGED <<buildVars, sqVars, catVars, reportVars, cleanVars, renderVars>>
    \/ NavigateUp /\ UNCHANGED <<buildVars, sqVars, catVars, reportVars, cleanVars, renderVars>>
    \/ SelectAll /\ UNCHANGED <<buildVars, sqVars, catVars, reportVars, cleanVars, renderVars>>
    \/ \E i \in 1..Len(ALL_DATA) : SelectCategory(i) /\ UNCHANGED <<buildVars, sqVars, catVars, reportVars, cleanVars, renderVars>>
    \/ \E i \in (0 - 1)..(Len(navStack) + 1) : NavToCall(i) /\ UNCHANGED <<buildVars, sqVars, catVars, reportVars, cleanVars, renderVars>>
    \/ NavToPop /\ UNCHANGED <<buildVars, sqVars, catVars, reportVars, cleanVars, renderVars>>
    \/ NavToReturn /\ UNCHANGED <<buildVars, sqVars, catVars, reportVars, cleanVars, renderVars>>

\* the page is generated from the reports and rendered once
RenderNext ==
    \/ CatFiles /\ UNCHANGED <<buildVars, sqVars, navVars, reportVars, cleanVars, renderVars>>
    \/ CatRecycle /\ UNCHANGED <<buildVars, sqVars, navVars, reportVars, cleanVars, renderVars>>
    \/ CatLogs /\ UNCHANGED <<buildVars, sqVars, navVars, reportVars, cleanVars, renderVars>>
    \/ CatDupes /\ UNCHANGED <<buildVars, sqVars, navVars, reportVars, cleanVars, renderVars>>
    \/ \E v \in 0..Len(categories) : \E box \in Containers :
          RenderStart(v, box) /\ UNCHANGED <<buildVars, navVars, catVars, reportVars, cleanVars>>
    \/ SqEnter /\ UNCHANGED <<buildVars, navVars, catVars, reportVars, cleanVars, renderVars>>
    \/ SqRow /\ UNCHANGED <<buildVars, navVars, catVars, reportVars, cleanVars, renderVars>>
    \/ SqReturn /\ UNCHANGED <<buildVars, navVars, catVars, reportVars, cleanVars, renderVars>>
    \/ RenderTop /\ UNCHANGED <<buildVars, navVars, catVars, reportVars, cleanVars>>
    \/ RenderRect /\ UNCHANGED <<buildVars, navVars, catVars, reportVars, cleanVars>>
    \/ RenderInner /\ UNCHANGED <<buildVars, navVars, catVars, reportVars, cleanVars>>
    \/ RenderDone /\ UNCHANGED <<buildVars, navVars, catVars, reportVars, cleanVars>>

CatNext ==
    \/ CatFiles /\ UNCHANGED <<buildVars, sqVars, navVars, reportVars, cleanVars, renderVars>>
    \/ CatRecycle /\ UNCHANGED <<buildVars, sqVars, navVars, reportVars, cleanVars, renderVars>>
    \/ CatLogs /\ UNCHANGED <<buildVars, sqVars, navVars, reportVars, cleanVars, renderVars>>
    \/ CatDupes /\ UNCHANGED <<buildVars, sqVars, navVars, reportVars, cleanVars, renderVars>>

ReportNext ==
    \/ ReportEnter /\ UNCHANGED <<buildVars, sqVars, navVars, catVars, cleanVars, renderVars>>
    \/ ReportStep /\ UNCHANGED <<buildVars, sqVars, navVars, catVars, cleanVars, renderVars>>
    \/ ReportReturn /\ UNCHANGED <<buildVars, sqVars, navVars, catVars, cleanVars, renderVars>>

CleanNext ==
    \/ \E line \in MenuInputs :
          MenuChoice(line) /\ UNCHANGED <<buildVars, sqVars, navVars, catVars, reportVars, renderVars>>
    \/ MenuEOF /\ UNCHANGED <<buildVars, sqVars, navVars, catVars, reportVars, renderVars>>
    \/ PressEnter /\ UNCHANGED <<buildVars, sqVars, navVars, catVars, reportVars, renderVars>>
    \/ FnReturn /\ UNCHANGED <<buildVars, sqVars, navVars, catVars, reportVars, renderVars>>
    \/ \E responses \in ConfirmInputs :
          \E outcomes \in [1..Len(Get(data.recycle_bins, "bins", <<>>)) -> RemovalOutcomes] :
             RecycleAll(responses, outcomes)
             /\ UNCHANGED <<buildVars, sqVars, navVars, catVars, reportVars, renderVars>>
    \/ \E responses \in ConfirmInputs : \E outcome \in RemovalOutcomes :
          RecycleShare(responses, outcome)
          /\ UNCHANGED <<buildVars, sqVars, navVars, catVars, reportVars, renderVars>>
    \/ \E responses \in ConfirmInputs :
          \E outcomes \in [1..Len(old_snaps) -> CmdOutcomes] :
             SnapshotAll(responses, outcomes)
             /\ UNCHANGED <<buildVars, sqVars, navVars, catVars, reportVars, renderVars>>
    \/ \E responses \in ConfirmInputs : \E outcome \in CmdOutcomes :
          SnapshotOne(responses, outcome)
          /\ UNCHANGED <<buildVars, sqVars, navVars, catVars, reportVars, renderVars>>
    \/ \E responses \in ConfirmInputs : \E outcome \in CmdOutcomes :
          DockerPrune(responses, outcome)
          /\ UNCHANGED <<buildVars, sqVars, navVars, catVars, reportVars, renderVars>>
    \/ \E responses \in ConfirmInputs :
          \E outcomes \in [1..Len(safe_logs) -> FileOutcomes] :
             LogsAll(responses, outcomes)
             /\ UNCHANGED <<buildVars, sqVars, navVars, catVars, reportVars, renderVars>>
    \/ \E response \in SelectInputs :
          LargeSelect(response) /\ UNCHANGED <<buildVars, sqVars, navVars, catVars, reportVars, renderVars>>
    \/ \E responses \in ConfirmInputs : \E outcome \in FileOutcomes :
          LargeFile(responses, outcome)
          /\ UNCHANGED <<buildVars, sqVars, navVars, catVars, reportVars, renderVars>>

\* build_directory_tree is called with a record list; the page is not loaded
BuildInit ==
    /\ files \in UNION {[1..n -> Records] : n \in 0..MaxFiles}
    /\ fidx = 1
    /\ tree = EmptyTree
    /\ bpc = "loop"
    /\ items = <<>> /\ target = IdleRect /\ remainingItems = <<>>
    /\ cur = IdleRect /\ rects = <<>> /\ spc = "idle"
    /\ currentData = 0 /\ navStack = <<>> /\ nodeCat = NoCategories
    /\ rootGen = 0 /\ lastEv = NoEvent /\ prevEv = NoEvent
    /\ viewRoot = 0 /\ navpc = "idle" /\ navArg = 0
    /\ reports = <<>> /\ categories = <<>> /\ cpc = "idle"
    /\ large_dirs = <<>> /\ ridx = 0 /\ children = <<>>
    /\ treemapData = EmptyTreemap /\ rpc = "idle"
    /\ DRY_RUN = FALSE /\ data = <<>> /\ pos = At("idle", 0) /\ todo = <<>>
    /\ choice = "" /\ indices = <<>> /\ freed = 0 /\ total_freed = 0
    /\ effects = <<>> /\ granted = {}
    /\ container = NoContainer /\ shown = NoNode /\ sorted = <<>> /\ topRects = <<>>
    /\ ri = 0 /\ drawn = <<>> /\ calls = <<>> /\ rnd = "idle"

\* squarify is called with a sibling list and a target rectangle
SqInit ==
    /\ items \in ItemLists
    /\ target \in Targets
    /\ remainingItems = <<>>
    /\ cur = IdleRect
    /\ rects = <<>>
    /\ spc = "call"
    /\ files = <<>> /\ fidx = 0 /\ tree = EmptyTree /\ bpc = "idle"
    /\ currentData = 0 /\ navStack = <<>> /\ nodeCat = NoCategories
    /\ rootGen = 0 /\ lastEv = NoEvent /\ prevEv = NoEvent
    /\ viewRoot = 0 /\ navpc = "idle" /\ navArg = 0
    /\ reports = <<>> /\ categories = <<>> /\ cpc = "idle"
    /\ large_dirs = <<>> /\ ridx = 0 /\ children = <<>>
    /\ treemapData = EmptyTreemap /\ rpc = "idle"
    /\ DRY_RUN = FALSE /\ data = <<>> /\ pos = At("idle", 0) /\ todo = <<>>
    /\ choice = "" /\ indices = <<>> /\ freed = 0 /\ total_freed = 0
    /\ effects = <<>> /\ granted = {}
    /\ container = NoContainer /\ shown = NoNode /\ sorted = <<>> /\ topRects = <<>>
    /\ ri = 0 /\ drawn = <<>> /\ calls = <<>> /\ rnd = "idle"

\* the page after init() (lines 592-598)
NavInit ==
    /\ currentData = SyntheticRoot(1)
    /\ navStack = <<>>
    /\ nodeCat = render([cd |-> SyntheticRoot(1), stack |-> <<>>,
                         cat |-> NoCategories]).cat
    /\ rootGen = 1
    /\ lastEv = NoEvent
    /\ prevEv = NoEvent
    /\ viewRoot = SyntheticRoot(1)
    /\ navpc = "idle"
    /\ navArg = 0
    /\ files = <<>> /\ fidx = 0 /\ tree = EmptyTree /\ bpc = "idle"
    /\ items = <<>> /\ target = IdleRect /\ remainingItems = <<>>
    /\ cur = IdleRect /\ rects = <<>> /\ spc = "idle"
    /\ reports = <<>> /\ categories = <<>> /\ cpc = "idle"
    /\ large_dirs = <<>> /\ ridx = 0 /\ children = <<>>
    /\ treemapData = EmptyTreemap /\ rpc = "idle"
    /\ DRY_RUN = FALSE /\ data = <<>> /\ pos = At("idle", 0) /\ todo = <<>>
    /\ choice = "" /\ indices = <<>> /\ freed = 0 /\ total_freed = 0
    /\ effects = <<>> /\ granted = {}
    /\ container = NoContainer /\ shown = NoNode /\ sorted = <<>> /\ topRects = <<>>
    /\ ri = 0 /\ drawn = <<>> /\ calls = <<>> /\ rnd = "idle"

\* build_category_data is called with the reports on disk
CatInit ==
    /\ reports \in [large_files : LargeFileReports, recycle_bins : RecycleReports,
                     logs : LogsReports, duplicates : DupesReports]
    /\ categories = <<>>
    /\ cpc = "files"
    /\ files = <<>> /\ fidx = 0 /\ tree = EmptyTree /\ bpc = "idle"
    /\ items = <<>> /\ target = IdleRect /\ remainingItems = <<>>
    /\ cur = IdleRect /\ rects = <<>> /\ spc = "idle"
    /\ currentData = 0 /\ navStack = <<>> /\ nodeCat = NoCategories
    /\ rootGen = 0 /\ lastEv = NoEvent /\ prevEv = NoEvent
    /\ viewRoot = 0 /\ navpc = "idle" /\ navArg = 0
    /\ large_dirs = <<>> /\ ridx = 0 /\ children = <<>>
    /\ treemapData = EmptyTreemap /\ rpc = "idle"
    /\ DRY_RUN = FALSE /\ data = <<>> /\ pos = At("idle", 0) /\ todo = <<>>
    /\ choice = "" /\ indices = <<>> /\ freed = 0 /\ total_freed = 0
    /\ effects = <<>> /\ granted = {}
    /\ container = NoContainer /\ shown = NoNode /\ sorted = <<>> /\ topRects = <<>>
    /\ ri = 0 /\ drawn = <<>> /\ calls = <<>> /\ rnd = "idle"

\* _build_treemap_data is called with the large_dirs list
ReportInit ==
    /\ large_dirs \in LargeDirLists
    /\ ridx = 0
    /\ children = <<>>
    /\ treemapData = EmptyTreemap
    /\ rpc = "call"
    /\ files = <<>> /\ fidx = 0 /\ tree = EmptyTree /\ bpc = "idle"
    /\ items = <<>> /\ target = IdleRect /\ remainingItems = <<>>
    /\ cur = IdleRect /\ rects = <<>> /\ spc = "idle"
    /\ currentData = 0 /\ navStack = <<>> /\ nodeCat = NoCategories
    /\ rootGen = 0 /\ lastEv = NoEvent /\ prevEv = NoEvent
    /\ viewRoot = 0 /\ navpc = "idle" /\ navArg = 0
    /\ reports = <<>> /\ categories = <<>> /\ cpc = "idle"
    /\ DRY_RUN = FALSE /\ data = <<>> /\ pos = At("idle", 0) /\ todo = <<>>
    /\ choice = "" /\ indices = <<>> /\ freed = 0 /\ total_freed = 0
    /\ effects = <<>> /\ granted = {}
    /\ container = NoContainer /\ shown = NoNode /\ sorted = <<>> /\ topRects = <<>>
    /\ ri = 0 /\ drawn = <<>> /\ calls = <<>> /\ rnd = "idle"

\* cleanup.py at its first menu (lines 343-358), with or without --dry-run
CleanInit ==
    /\ DRY_RUN \in BOOLEAN
    /\ data \in Datasets
    /\ pos = At("menu", 0)
    /\ todo = <<>>
    /\ choice = ""
    /\ indices = <<>>
    /\ freed = 0
    /\ total_freed = 0
    /\ effects = <<>>
    /\ granted = {}
    /\ files = <<>> /\ fidx = 0 /\ tree = EmptyTree /\ bpc = "idle"
    /\ items = <<>> /\ target = IdleRect /\ remainingItems = <<>>
    /\ cur = IdleRect /\ rects = <<>> /\ spc = "idle"
    /\ currentData = 0 /\ navStack = <<>> /\ nodeCat = NoCategories
    /\ rootGen = 0 /\ lastEv = NoEvent /\ prevEv = NoEvent
    /\ viewRoot = 0 /\ navpc = "idle" /\ navArg = 0
    /\ reports = <<>> /\ categories = <<>> /\ cpc = "idle"
    /\ large_dirs = <<>> /\ ridx = 0 /\ children = <<>>
    /\ treemapData = EmptyTreemap /\ rpc = "idle"
    /\ container = NoContainer /\ shown = NoNode /\ sorted = <<>> /\ topRects = <<>>
    /\ ri = 0 /\ drawn = <<>> /\ calls = <<>> /\ rnd = "idle"

\* build_category_data is called with the reports on disk and the page made
\* of its result is opened
RenderInit ==
    /\ reports \in RenderReports
    /\ categories = <<>>
    /\ cpc = "files"
    /\ container = NoContainer /\ shown = NoNode /\ sorted = <<>> /\ topRects = <<>>
    /\ ri = 0 /\ drawn = <<>> /\ calls = <<>> /\ rnd = "load"
    /\ files = <<>> /\ fidx = 0 /\ tree = EmptyTree /\ bpc = "idle"
    /\ items = <<>> /\ target = IdleRect /\ remainingItems = <<>>
    /\ cur = IdleRect /\ rects = <<>> /\ spc = "idle"
    /\ currentData = 0 /\ navStack = <<>> /\ nodeCat = NoCategories
    /\ rootGen = 0 /\ lastEv = NoEvent /\ prevEv = NoEvent
    /\ viewRoot = 0 /\ navpc = "idle" /\ navArg = 0
    /\ large_dirs = <<>> /\ ridx = 0 /\ children = <<>>
    /\ treemapData = EmptyTreemap /\ rpc = "idle"
    /\ DRY_RUN = FALSE /\ data = <<>> /\ pos = At("idle", 0) /\ todo = <<>>
    /\ choice = "" /\ indices = <<>> /\ freed = 0 /\ total_freed = 0
    /\ effects = <<>> /\ granted = {}

SpecBuild    == BuildInit /\ [][BuildNext]_vars
SpecSquarify == SqInit /\ [][SqNext]_vars
SpecNav      == NavInit /\ [][NavNext]_vars
\* a running handler goes on: the script is not stopped in the middle of a call
SpecNavTo ==
    /\ NavInit
    /\ [][NavToNext]_vars
    /\ WF_vars(NavToPop /\ UNCHANGED <<buildVars, sqVars, catVars, reportVars, cleanVars, renderVars>>)
    /\ WF_vars(NavToReturn /\ UNCHANGED <<buildVars, sqVars, catVars, reportVars, cleanVars, renderVars>>)
SpecCategory == CatInit /\ [][CatNext]_vars
SpecRender   == RenderInit /\ [][RenderNext]_vars
SpecReport   == ReportInit /\ [][ReportNext]_vars
SpecCleanup  == CleanInit /\ [][CleanNext]_vars

-----------------------------------------------------------------------------
(* Properties of squarify                                                   *)

\* a === b on numbers: NaN equals nothing
QEq(a, b) == ~IsNaN(a) /\ ~IsNaN(b) /\ a = b

Area(r) == QMul(r.w, r.h)

RECURSIVE SumAreas(_)
SumAreas(rs) == IF rs = <<>> THEN Zero ELSE QAdd(Area(Head(rs)), SumAreas(Tail(rs)))

TotalSize == SumSizes([i \in 1..Len(items) |-> i])

\* two rectangles share a region of positive area
Overlap(a, b) ==
    /\ QLt(QMax(a.x, b.x), QMin(QAdd(a.x, a.w), QAdd(b.x, b.w)))
    /\ QLt(QMax(a.y, b.y), QMin(QAdd(a.y, a.h), QAdd(b.y, b.h)))

Inside(r, t) ==
    /\ QGe(r.x, t.x)
    /\ QGe(r.y, t.y)
    /\ QLe(QAdd(r.x, r.w), QAdd(t.x, t.w))
    /\ QLe(QAdd(r.y, r.h), QAdd(t.y, t.h))

SortedDescending == \A i \in 1..(Len(items) - 1) : items[i] >= items[i + 1]

\* render, lines 423-424: if (r.w < 2 || r.h < 2) continue
TooSmall(r) == QLt(r.w, Num(2)) \/ QLt(r.h, Num(2))
Visible(rs) == SelectSeq(rs, LAMBDA r : ~TooSmall(r))

\* C2: for a non-empty list of positive total size the areas of the returned
\* rectangles sum to exactly W*H.
C2_AreasSumToTarget ==
    (spc = "done" /\ Len(items) > 0 /\ TotalSize > 0)
        => QEq(SumAreas(rects), QMul(target.w, target.h))

\* C3: no two returned rectangles overlap in positive area and every returned
\* rectangle lies inside the target rectangle.
C3_NoOverlapAndInside ==
    (spc = "done" /\ Len(items) > 0 /\ TotalSize > 0)
        => /\ \A i, j \in 1..Len(rects) : i < j => ~Overlap(rects[i], rects[j])
           /\ \A i \in 1..Len(rects) : Inside(rects[i], target)

\* C4: the areas of any two returned rectangles are in the ratio of the sizes
\* of their items.
C4_AreasProportional ==
    spc = "done"
        => \A i, j \in 1..Len(rects) :
              QEq(QMul(Area(rects[i]), Num(ItemSize(rects[j].item))),
                  QMul(Area(rects[j]), Num(ItemSize(rects[i].item))))

\* C5: an empty list, or a list whose sizes sum to zero, yields the empty
\* result (so no rectangle, and none with a NaN dimension).
C5_EmptyOrZeroTotalReturnsEmpty ==
    (spc = "done" /\ (Len(items) = 0 \/ TotalSize = 0)) => rects = <<>>

C5_Witness ==
    spc = "done" /\ Len(items) >= 2 /\ TotalSize = 0 /\ rects = <<>>

\* C6: in a list sorted descending that mixes positive and zero sizes, only the
\* positive-size items get a rectangle; sizes 10 and 0 in a 100x100 square give
\* the single rectangle (0, 0, 100, 100).
C6_ZeroSizeItemsGetNoRectangle ==
    (spc = "done" /\ SortedDescending /\ TotalSize > 0)
        => /\ \A i \in 1..Len(rects) : ItemSize(rects[i].item) > 0
           /\ (items = <<10, 0>> /\ target.w = Num(100) /\ target.h = Num(100))
                 => rects = <<[item |-> 1, x |-> Zero, y |-> Zero,
                               w |-> Num(100), h |-> Num(100)]>>

\* C7: with a positive total, the result holds exactly one rectangle per input
\* item, in input order, however small; rectangles narrower than 2 are only
\* skipped by render afterwards. While the loop runs, the placed items followed
\* by the remaining ones are the input, in order.
C7_OneRectanglePerItemInOrder ==
    /\ (spc = "done" /\ TotalSize > 0)
          => /\ Len(rects) = Len(items)
             /\ \A i \in 1..Len(rects) : rects[i].item = i
    /\ spc = "loop"
          => [i \in 1..Len(rects) |-> rects[i].item] \o remainingItems
                = [i \in 1..Len(items) |-> i]

C7_Witness ==
    /\ spc = "done" /\ TotalSize > 0 /\ Len(items) >= 2
    /\ Len(rects) = Len(items)
    /\ \E i \in 1..Len(rects) : TooSmall(rects[i])
    /\ Len(Visible(rects)) < Len(rects)

-----------------------------------------------------------------------------
(* Properties of build_directory_tree                                       *)

\* C1: in the returned tree every node that has children has a size equal to
\* the sum of the sizes of its direct children.
C1_InteriorSizeIsSumOfChildren ==
    bpc = "done"
        => \A k \in DOMAIN tree :
              ChildKeys(tree, k) # {} => tree[k].size = SumOver(tree, ChildKeys(tree, k))

-----------------------------------------------------------------------------
(* Properties of the navigation                                             *)

SameNav(s, cd, stack) == s.cd = cd /\ s.stack = stack

\* C8: drillDown(n) on a node with non-empty children followed immediately by
\* navigateUp() restores currentData (the same object) and navStack: for the
\* pair of events just handled, and for every node drillDown could be given
\* in the current state.
C8_DrillDownThenUpRestores ==
    /\ (lastEv.op = "navigateUp" /\ prevEv.op = "drillDown" /\ HasKids(prevEv.arg))
          => (currentData = prevEv.cd /\ navStack = prevEv.stack)
    /\ \A n \in Nodes :
          HasKids(n) => SameNav(navigateUp(drillDown(NavState, n)), currentData, navStack)

C8_Witness ==
    /\ lastEv.op = "navigateUp" /\ prevEv.op = "drillDown" /\ HasKids(prevEv.arg)
    /\ lastEv.cd = prevEv.arg
    /\ prevEv.stack # <<>>
    /\ currentData = prevEv.cd /\ navStack = prevEv.stack

\* C9: drillDown on a node whose children are absent or empty, and navigateUp
\* with an empty navStack, leave navStack and currentData unchanged.
C9_InvalidTransitionsAreNoOps ==
    /\ (lastEv.op = "drillDown" /\ ~HasKids(lastEv.arg))
          => (currentData = lastEv.cd /\ navStack = lastEv.stack)
    /\ (lastEv.op = "navigateUp" /\ lastEv.stack = <<>>)
          => (currentData = lastEv.cd /\ navStack = lastEv.stack)
    /\ \A n \in Nodes : ~HasKids(n) => drillDown(NavState, n) = NavState
    /\ navStack = <<>> => navigateUp(NavState) = NavState

C9_Witness ==
    /\ lastEv.op = "navigateUp" /\ lastEv.stack = <<>>
    /\ prevEv.op = "drillDown" /\ ~HasKids(prevEv.arg)
    /\ currentData = prevEv.cd /\ navStack = <<>>
    /\ nodeCat = prevEv.cat

\* navigateUp() called k times
RECURSIVE UpTimes(_, _)
UpTimes(s, k) == IF k = 0 THEN s ELSE UpTimes(navigateUp(s), k - 1)

\* C10: navigateTo(index) with 0 <= index <= navStack.length leaves the
\* navStack and currentData that (navStack.length - index) calls of
\* navigateUp() leave: the stack has length index and, if it was longer,
\* currentData is the node that was at navStack[index].
C10_NavigateToIsRepeatedUp ==
    (lastEv.op = "navigateTo" /\ lastEv.arg \in 0..Len(lastEv.stack))
        => LET pre == [cd |-> lastEv.cd, stack |-> lastEv.stack, cat |-> lastEv.cat]
               ups == UpTimes(pre, Len(pre.stack) - lastEv.arg)
           IN  /\ SameNav(ups, currentData, navStack)
               /\ Len(navStack) = lastEv.arg
               /\ lastEv.arg < Len(pre.stack) => currentData = pre.stack[lastEv.arg + 1]

C10_Witness ==
    /\ lastEv.op = "navigateTo"
    /\ Len(lastEv.stack) >= lastEv.arg + 2
    /\ Len(navStack) = lastEv.arg
    /\ currentData = lastEv.stack[lastEv.arg + 1]

\* C11: after init, drillDown, navigateUp and navigateTo (each with the render
\* it triggers) change no field of any node. The one node field the page
\* script ever assigns is _category (line 418): it keeps the value the render
\* of init gave it; only navStack and currentData change.
C11_EventsLeaveNodesUnchanged ==
    lastEv.op \in {"drillDown", "navigateUp", "navigateTo"} => nodeCat = lastEv.cat

C11_Witness ==
    /\ lastEv.op = "drillDown" /\ lastEv.arg = 2
    /\ currentData = 2 /\ navStack # <<>>
    /\ prevEv.op \in {"navigateUp", "navigateTo"}
    /\ nodeCat = lastEv.cat /\ nodeCat[8] = "recycle"

-----------------------------------------------------------------------------
(* More properties of build_directory_tree                                  *)

\* C12: build_directory_tree returns a tree without raising, for every record
\* list, also when one record's path is a directory prefix of another's.
C12_NeverRaises == bpc # "error"

\* the records C13 speaks of: path missing or empty, size missing, zero or
\* negative
Malformed(f) ==
    \/ "path" \notin f.keys
    \/ f.path = <<>>
    \/ "size" \notin f.keys
    \/ f.size <= 0
WellFormed(f) == ~Malformed(f)

\* C13: the call on a list ends as the call on that list with the malformed
\* records removed: the same tree is returned (or both raise).
C13_MalformedRecordsDropped ==
    bpc \in {"done", "error"}
        => LET r == build_directory_tree(SelectSeq(files, WellFormed))
           IN  /\ (bpc = "done") = r.ok
               /\ bpc = "done" => tree = r.tree

C13_Witness ==
    /\ bpc = "done"
    /\ Len(files) = 3
    /\ WellFormed(files[1]) /\ Malformed(files[2]) /\ WellFormed(files[3])
    /\ files[1].path # files[3].path
    /\ tree = build_directory_tree(<<files[1], files[3]>>).tree

\* the accepted records, and the components a path normalizes to
Accepted == SelectSeq(files, WellFormed)
Parts(f) == Split(Strip(f.path))

\* C14: when the accepted records all normalize to one path (two or more of
\* them), the tree holds a single leaf for it with the last record's size,
\* and every ancestor directory counts the path once, with that size.
C14_LastWriteWinsNoDoubleCount ==
    (/\ bpc = "done"
     /\ Len(Accepted) >= 2
     /\ \A i \in 1..Len(Accepted) : Parts(Accepted[i]) = Parts(Accepted[1]))
        => LET p    == Parts(Accepted[1])
               last == Accepted[Len(Accepted)].size
           IN  /\ p \in DOMAIN tree /\ ~tree[p].isDir /\ tree[p].size = last
               /\ Cardinality(DOMAIN tree) = Len(p) + 1
               /\ \A i \in 0..(Len(p) - 1) : tree[SubSeq(p, 1, i)].size = last

-----------------------------------------------------------------------------
(* The worked example: records, tree and layout                             *)

ExamplePath(dir, file) == <<"/", "a", "/">> \o dir \o file
ExampleFiles ==
    << [path |-> ExamplePath(<<"b", "/">>, <<"f", "1">>), size |-> 100,
        keys |-> {"path", "size"}],
       [path |-> ExamplePath(<<"c", "/">>, <<"f", "2">>), size |-> 300,
        keys |-> {"path", "size"}],
       [path |-> ExamplePath(<<>>, <<"f", "3">>), size |-> 100,
        keys |-> {"path", "size"}] >>

Rect(i, x, y, w, h) ==
    [item |-> i, x |-> Num(x), y |-> Num(y), w |-> Num(w), h |-> Num(h)]

\* C16: /a/b/f1 (100), /a/c/f2 (300), /a/f3 (100) build a root whose single
\* child a has size 500 and the children b (100), c (300) and leaf f3 (100);
\* a's children sorted descending are c, b, f3, and their layout in 400x100 is
\* c (0,0,240,100), b (240,0,80,100), f3 (320,0,80,100), one item per row.
C16_WorkedExample ==
    (/\ spc = "done"
     /\ items = <<300, 100, 100>>
     /\ target = [x |-> Zero, y |-> Zero, w |-> Num(400), h |-> Num(100)])
        => LET r  == build_directory_tree(ExampleFiles)
               t  == r.tree
               a  == <<<<"a">>>>
               b  == <<<<"a">>, <<"b">>>>
               c  == <<<<"a">>, <<"c">>>>
               f3 == <<<<"a">>, <<"f", "3">>>>
           IN  /\ r.ok
               /\ ChildKeys(t, RootKey) = {a}
               /\ t[RootKey].size = 500 /\ t[a].size = 500
               /\ ChildKeys(t, a) = {b, c, f3}
               /\ t[b].isDir /\ t[b].size = 100
               /\ ChildKeys(t, b) = {b \o <<<<"f", "1">>>>}
               /\ t[c].isDir /\ t[c].size = 300
               /\ ChildKeys(t, c) = {c \o <<<<"f", "2">>>>}
               /\ ~t[f3].isDir /\ t[f3].size = 100
               /\ SortedChildren(t, a) = <<c, b, f3>>
               /\ items = [i \in 1..3 |-> t[SortedChildren(t, a)[i]].size]
               /\ rects = <<Rect(1, 0, 0, 240, 100), Rect(2, 240, 0, 80, 100),
                            Rect(3, 320, 0, 80, 100)>>
               \* one item per row: no two rectangles share the row's x
               /\ \A i, j \in 1..Len(rects) : i # j => rects[i].x # rects[j].x

C16_Witness ==
    /\ spc = "done"
    /\ items = <<300, 100, 100>>
    /\ target.w = Num(400) /\ target.h = Num(100)
    /\ Len(rects) = 3 /\ rects[3].x = Num(320)

-----------------------------------------------------------------------------
(* Properties of build_category_data                                        *)

RECURSIVE SumChildSizes(_)
SumChildSizes(cs) == IF cs = <<>> THEN 0 ELSE Head(cs).size + SumChildSizes(Tail(cs))

\* C15: every category node other than 'Files by Directory' that
\* build_category_data emits has a size equal to the sum of the sizes of its
\* children, whatever the reports contain.
C15_CategorySizeIsSumOfChildren ==
    \A i \in 1..Len(categories) :
        categories[i].category # "files" =>
            categories[i].size = SumChildSizes(categories[i].children)

-----------------------------------------------------------------------------
(* Properties of _build_treemap_data                                        *)

\* path = root_path + "/" + one non-empty component
DirectChild(root_path, path) ==
    /\ StartsWith(path, root_path \o <<"/">>)
    /\ SliceFrom(path, Len(root_path) + 1) # <<>>
    /\ ~HasSlash(SliceFrom(path, Len(root_path) + 1))

\* the children of the entries from index i on that are direct children
RECURSIVE DirectChildren(_, _)
DirectChildren(dirs, i) ==
    IF i > Len(dirs) THEN <<>>
    ELSE (IF DirectChild(RootPathOf(dirs), EntryPath(dirs[i], <<>>))
          THEN <<ChildOf(RootPathOf(dirs), dirs[i])>> ELSE <<>>)
         \o DirectChildren(dirs, i + 1)

\* C20: the children _build_treemap_data returns are those of the entries
\* whose path is the root path, a '/' and exactly one non-empty component;
\* an entry that is not under the root path is never emitted.
C20_OnlyDirectChildrenOfRoot ==
    (rpc = "done" /\ large_dirs # <<>>) =>
        treemapData.children = DirectChildren(large_dirs, 2)

-----------------------------------------------------------------------------
(* Properties of cleanup.py                                                 *)

\* C17: with --dry-run no menu choice removes, truncates or runs a
\* subprocess, and the session total of freed bytes stays 0.
C17_DryRunChangesNothing ==
    DRY_RUN => effects = <<>> /\ freed = 0 /\ total_freed = 0

\* a dry run that went through 'Run All Cleanups' and is back at the menu loop
C17_Witness ==
    DRY_RUN /\ pos.at = "pause" /\ choice = "6" /\ data.docker.present
    /\ total_freed = 0 /\ effects = <<>>

\* the prompt p of the running call covers the effect e
Covers(p, e) ==
    CASE e.kind = "empty_bin" ->
           p.prompt = "recycle_all" \/ (p.prompt = "recycle_share" /\ p.i = e.target)
      [] e.kind = "btrfs_delete" ->
           p.prompt = "snapshot_all" \/ (p.prompt = "snapshot" /\ p.i = e.target)
      [] e.kind = "docker_prune" -> p.prompt = "docker" /\ p.i = e.target
      [] e.kind \in {"log_unlink", "log_truncate"} -> p.prompt = "logs_all"
      [] e.kind = "file_unlink" -> p.prompt = "large_file" /\ p.i = e.target

\* C18: every removal, truncation and subprocess of a cleanup call follows a
\* confirm() of that call that covers it and returned True on the answer y or
\* yes; n, no and the empty answer never lead to the action.
C18_DestructiveOnlyAfterConfirm ==
    \A k \in 1..Len(effects) :
        \E p \in granted : Covers(p, effects[k]) /\ p.answer \in {"y", "yes"}

\* the per-share branch emptied a bin after the empty-all prompt was declined
C18_Witness ==
    /\ Len(effects) = 1 /\ effects[1].kind = "empty_bin"
    /\ \E p \in granted : p.prompt = "recycle_share" /\ p.i = effects[1].target
    /\ \A p \in granted : p.prompt # "recycle_all"
    /\ C18_DestructiveOnlyAfterConfirm

\* C19: cleanup_recycle_bins empties a directory only if the bin's path is
\* non-empty, is an existing directory and contains '#recycle', in the
\* empty-all branch and in the per-share branch.
C19_OnlyRecycleDirectoriesEmptied ==
    \A k \in 1..Len(effects) :
        effects[k].kind = "empty_bin" =>
            LET path == Get(data.recycle_bins.bins[effects[k].target], "path", <<>>)
            IN  path # <<>> /\ IsDir(path) /\ HasRecycle(path)

\* the empty-all branch ran over a bin whose directory is not a recycle bin,
\* and emptied only the other one
C19_Witness ==
    /\ pos.at = "return"
    /\ \E p \in granted : p.prompt = "recycle_all"
    /\ \E i \in 1..Len(data.recycle_bins.bins) :
          data.recycle_bins.bins[i].path = PathPlain
    /\ Len(effects) = 1 /\ effects[1].kind = "empty_bin"
    /\ data.recycle_bins.bins[effects[1].target].path = PathOk1

\* the size the code adds to freed for the effect e when it succeeded
EffectSize(e) ==
    CASE e.kind = "empty_bin" -> Get(data.recycle_bins.bins[e.target], "size_bytes", 0)
      [] e.kind = "btrfs_delete" -> Get(old_snaps[e.target], "exclusive_bytes", 0)
      [] e.kind = "docker_prune" -> 0
      [] e.kind \in {"log_unlink", "log_truncate"} -> Get(safe_logs[e.target], "size_bytes", 0)
      [] e.kind = "file_unlink" -> Get(data.large_files[e.target + 1], "size", 0)

RECURSIVE SucceededBytes(_)
SucceededBytes(es) ==
    IF es = <<>> THEN 0
    ELSE (IF Head(es).ok THEN EffectSize(Head(es)) ELSE 0) + SucceededBytes(Tail(es))

\* C30: the byte count a cleanup function returns is the sum of the sizes of
\* the items whose removal, truncation or delete command succeeded; a bin
\* whose items could not be removed, a failed snapshot delete or a failed log
\* unlink adds nothing.
C30_FreedCountsOnlySuccesses ==
    pos.at = "return" => freed = SucceededBytes(effects)

-----------------------------------------------------------------------------
(* Running sums of build_directory_tree                                     *)

\* the sum of the sizes of the records recs whose path passes through the
\* directory k
RECURSIVE PassingThrough(_, _)
PassingThrough(k, recs) ==
    IF recs = <<>> THEN 0
    ELSE (IF IsPrefix(k, Parts(Head(recs))) /\ Len(Parts(Head(recs))) > Len(k)
          THEN Head(recs).size ELSE 0)
         + PassingThrough(k, Tail(recs))

\* C27: in the returned tree the size of every directory below the root is
\* the sum of the sizes of all accepted records whose path passes through it,
\* one term per record of the input, whatever was overwritten later; the size
\* of the root is the sum of the sizes of its direct children.
C27_DirectorySizeIsRunningSum ==
    bpc = "done"
        => LET recs == Accepted
           IN  /\ \A k \in DOMAIN tree :
                    (k # RootKey /\ tree[k].isDir)
                        => tree[k].size = PassingThrough(k, recs)
               /\ tree[RootKey].size = SumOver(tree, ChildKeys(tree, RootKey))

\* a directory two levels down that two records pass through, one of them
\* overwriting the leaf of the other
C27_Witness ==
    /\ bpc = "done"
    /\ Len(Accepted) = 3
    /\ Parts(Accepted[1]) = Parts(Accepted[2])
    /\ \E k \in DOMAIN tree :
          /\ Len(k) = 2 /\ tree[k].isDir
          /\ tree[k].size = Accepted[3].size
    /\ \E k \in DOMAIN tree :
          /\ Len(k) = 1 /\ tree[k].isDir
          /\ tree[k].size = Accepted[1].size + Accepted[2].size
          /\ tree[k].size # SumOver(tree, ChildKeys(tree, k))

-----------------------------------------------------------------------------
(* The category tags                                                        *)

\* C25: after the render of init and after every later event, every node of
\* the subtree of a member of ALL_DATA (the member included) has the _category
\* tag equal to that member's category.
C25_DescendantsCarryRootCategory ==
    \A i \in 1..Len(ALL_DATA) :
        \A n \in Subtree(ALL_DATA[i]) : nodeCat[n] = Category(ALL_DATA[i])

C25_Witness ==
    /\ lastEv.op = "navigateTo" /\ prevEv.op = "drillDown"
    /\ prevEv.cd = 3 /\ prevEv.arg = 5 /\ currentData = 1
    /\ nodeCat[7] = "files" /\ nodeCat[9] = "recycle"

-----------------------------------------------------------------------------
(* The rows of squarify                                                     *)

\* the worst ratio of the first k of the remaining items taken as a row, in the
\* remaining rectangle
WorstOfPrefix(k) ==
    LET isWide == QGe(cur.w, cur.h)
        row    == SubSeq(remainingItems, 1, k)
    IN  worstRatio(row, SumSizes(row), IF isWide THEN cur.h ELSE cur.w,
                   IF isWide THEN cur.w ELSE cur.h, SumSizes(remainingItems))

\* C22: every pass of the outer loop takes a row of n >= 1 items from the front
\* of the remaining items, in order, and places exactly them; each item after
\* the first was appended because the worst ratio of the extended row was less
\* than or equal to that of the row before it; and if items are left, the first
\* of them would strictly increase the worst ratio of the row.
C22_RowsAreGreedilyMaximal ==
    [][(spc = "loop" /\ remainingItems # <<>>) =>
          LET n == Len(remainingItems) - Len(remainingItems')
          IN  /\ n >= 1
              /\ remainingItems' = SubSeq(remainingItems, n + 1, Len(remainingItems))
              /\ Len(rects') = Len(rects) + n
              /\ \A k \in 1..n : rects'[Len(rects) + k].item = remainingItems[k]
              /\ \A k \in 1..(n - 1) : QLe(WorstOfPrefix(k + 1), WorstOfPrefix(k))
              /\ remainingItems' # <<>> => QGt(WorstOfPrefix(n + 1), WorstOfPrefix(n))]_vars

-----------------------------------------------------------------------------
(* The two copies of squarify                                               *)

\* C28: for every list of non-negative numeric sizes and every target
\* rectangle, the rectangles squarify of the page returns are the rectangles
\* squarify of the dashboard returns for the same arguments: the same items in
\* the same order with the same x, y, w and h.
C28_BothSquarifyAgree ==
    spc = "done" => rects = ReportSquarify(items, target)

C28_Witness ==
    /\ spc = "done"
    /\ Len(rects) = 3
    /\ rects[1].w # target.w /\ rects[1].h # target.h
    /\ rects[3].x # rects[2].x /\ rects[3].y # rects[2].y
    /\ rects = ReportSquarify(items, target)

-----------------------------------------------------------------------------
(* The colors                                                               *)

\* C24: getColor returns the same color for the same node, mode and depth
\* before and after every navigation event, hence in any two navigation
\* states of a session.
C24_GetColorIsPure ==
    [][\A node \in Nodes : \A mode \in Modes : \A depth \in {0, 1} :
          getColor(node, mode, depth)' = getColor(node, mode, depth)]_vars

-----------------------------------------------------------------------------
(* The navigation stack                                                     *)

\* b is below a in the hierarchy, and is not a
ProperAncestor(a, b) == b \in Subtree(a) /\ b # a

\* C26: navStack is an ancestor chain: every entry is a proper ancestor of the
\* entry after it and the last entry is a proper ancestor of currentData; and
\* navStack is empty exactly when currentData is the node that init or the
\* category select made the current one.
C26_NavStackIsAncestorChain ==
    /\ \A i \in 1..(Len(navStack) - 1) : ProperAncestor(navStack[i], navStack[i + 1])
    /\ navStack # <<>> => ProperAncestor(navStack[Len(navStack)], currentData)
    /\ (navStack = <<>>) <=> (currentData = viewRoot)

C26_Witness ==
    /\ lastEv.op = "navigateUp" /\ prevEv.op = "drillDown"
    /\ Len(navStack) = 2 /\ navStack[1] = viewRoot
    /\ ProperAncestor(navStack[2], currentData)
    /\ currentData # lastEv.cd

-----------------------------------------------------------------------------
(* Termination of navigateTo                                                *)

\* C29: every call of navigateTo, whatever the index and the stack, returns,
\* and when it has returned currentData is a node, not undefined.
C29_NavigateToTerminates ==
    (navpc = "loop") ~> (navpc = "idle" /\ currentData # Undefined)

-----------------------------------------------------------------------------
(* Properties of render                                                     *)

\* the sizes of the list of a squarify call, in the order it was passed
Passed(call) == [i \in 1..Len(call.order) |-> call.stored[call.order[i]]]

\* the children lists of a node and of everything below it are stored in
\* non-increasing size order
RECURSIVE NonIncreasingBelow(_)
NonIncreasingBelow(node) ==
    /\ \A i \in 1..(Len(ChildList(node)) - 1) :
          SizeOf(ChildList(node)[i]) >= SizeOf(ChildList(node)[i + 1])
    /\ \A i \in 1..Len(ChildList(node)) : NonIncreasingBelow(ChildList(node)[i])

\* C21: every list render passes to squarify, for the current node and for a
\* nested node, is the stored children list rearranged into non-increasing
\* size order, nodes of equal size in their stored order, whatever the stored
\* order is; and the children lists tree_to_treemap_json produced (the
\* 'Files by Directory' node and everything below it) are in non-increasing
\* size order.
C21_LayoutListsSortedDescending ==
    /\ \A n \in 1..Len(calls) :
          /\ Len(calls[n].order) = Len(calls[n].stored)
          /\ {calls[n].order[i] : i \in 1..Len(calls[n].order)} = 1..Len(calls[n].stored)
          /\ \A i, j \in 1..Len(calls[n].order) :
                i < j => \/ Passed(calls[n])[i] > Passed(calls[n])[j]
                         \/ /\ Passed(calls[n])[i] = Passed(calls[n])[j]
                            /\ calls[n].order[i] < calls[n].order[j]
    /\ spc = "call" => items = Passed(calls[Len(calls)])
    /\ \A n \in 1..Len(categories) :
          categories[n].category = "files" => NonIncreasingBelow(categories[n])

C21_Witness ==
    /\ rnd = "done"
    /\ \E n \in 1..Len(calls) :
          /\ calls[n].level = 0
          /\ calls[n].order # [i \in 1..Len(calls[n].stored) |-> i]
          /\ \E i, j \in 1..Len(calls[n].stored) :
                i < j /\ calls[n].stored[i] = calls[n].stored[j]
    /\ \E n \in 1..Len(calls) :
          /\ calls[n].level = 1
          /\ calls[n].order # [i \in 1..Len(calls[n].stored) |-> i]
    /\ \E n \in 1..Len(categories) :
          /\ categories[n].category = "files"
          /\ Len(ChildList(categories[n])) >= 2

\* C23: a nested squarify call is made only for a rectangle whose node has
\* children, with w > 40 and h > 30, against (0, 0, w - 2, h - 2); every
\* nested rectangle drawn, offset by 1, lies inside its parent's rectangle;
\* and the lists laid out in one pass are the children of the current node
\* and the children of its children, nothing deeper.
C23_NestedLevelInsideParent ==
    /\ \A n \in 1..Len(calls) :
          IF calls[n].level = 0
          THEN n = 1 /\ Len(calls[n].stored) = Len(ChildList(shown))
          ELSE LET p == topRects[calls[n].parent]
               IN  /\ calls[n].level = 1
                   /\ Len(ChildList(sorted[p.item])) > 0
                   /\ Len(calls[n].stored) = Len(ChildList(sorted[p.item]))
                   /\ QGt(p.w, Num(40)) /\ QGt(p.h, Num(30))
                   /\ calls[n].c = [x |-> Zero, y |-> Zero, w |-> QSub(p.w, Num(2)),
                                    h |-> QSub(p.h, Num(2))]
    /\ \A n \in 1..Len(drawn) :
          drawn[n].level = 1 =>
             LET p == topRects[drawn[n].top]
                 d == drawn[n]
             IN  /\ QLe(Zero, d.x) /\ QLe(QAdd(d.x, d.w), p.w)
                 /\ QLe(Zero, d.y) /\ QLe(QAdd(d.y, d.h), p.h)

====
